---- MODULE Spec2Model ----
(***************************************************************************)
(* Explorer navigation layer: panels of the docking layout                 *)
(* (GoldenLayoutService), the tab list and workspace persistence of        *)
(* NavigationComponent, the panel-matching routines, and the CodeGen       *)
(* configuration module.                                                   *)
(*                                                                         *)
(* JavaScript values are modelled as strings: UNDEF and NULL stand for     *)
(* undefined and null, "true" for the boolean true.  Every ResourceData    *)
(* the source constructs carries a Configuration object, so Configuration  *)
(* is a function from its own keys to values; reading a missing key gives  *)
(* UNDEF, as a property read does.                                         *)
(***************************************************************************)
EXTENDS Integers, Sequences, FiniteSets, TLC

VARIABLES
  \* ---- GoldenLayoutService / GoldenLayoutContainerComponent
  goldenLayoutContainer,  \* the navigation component's view child is set
  goldenLayout,           \* the service holds a layout instance
  activeComponents,       \* registry: sequence of [key, state, owner], insertion order
  layoutArr,              \* arrangement of the docking layout
  \* ---- NavigationComponent
  tabs, workSpace, workSpaceItems, pendingPanels, loggedIn, navInitialized,
  calls,                  \* AddOrSelectPanel calls waiting at an await
  panelTimers,            \* addPanel timers set by LoadWorkspaceItems
  restoreTimer,           \* loadLayout timer set by LoadWorkspaceItems
  homeTimer,              \* empty-layout timer set by initializeGoldenLayout
  deletes,                \* removeWorkspaceItem calls waiting at an await
  \* ---- remote store of workspace items, id generators
  store, idSeq, wsSeq, nCalls, nUser,
  \* ---- observations: last focusPanel call, last SaveSingleWorkspaceItem
  \* return, whether AddOrSelectPanel calls overlapped
  lastFocus, saveRet, everOverlap,
  \* ---- matching routines applied to chosen inputs (SpecMatch)
  mPc, mReq, mCands, mPanelRes, mTabRes,
  \* ---- configuration module (SpecCfg)
  cPc, cEnv, cExports, cPrevEnv, cPrevExports,
  \* ---- handleEvent (SpecEvents)
  handlePc,               \* position of handleEvent(LoggedIn)
  earlyEvents,            \* _earlyEvents: sequence of [n, data]
  received,               \* ComponentEvents received so far; the n-th carries stamp n
  dispatched,             \* the events passed to AddOrSelectTab, in call order
  \* ---- tab context menu (SpecMenu)
  closedTabs,
  contextMenuSelectedTabIndex,
  menuPc,                 \* "idle", "menu" (the menu is visible), "remove" (in the loop)
  menuI,                  \* loop index of handleContextMenuOption, from 1
  transGroup,             \* entities whose Delete() is queued in the transaction group
  \* ---- SaveWorkspace / SaveSingleWorkspaceItem (SpecSave)
  ssObs,                  \* the last SaveSingleWorkspaceItem call: tab before and after, result
  swPc,                   \* "idle", "loop"
  swI,                    \* loop index of SaveWorkspace, from 1
  swSuccess,              \* bSuccess
  swLog,                  \* the SaveSingleWorkspaceItem calls of the running SaveWorkspace
  swRet,                  \* what the last SaveWorkspace returned
  \* ---- GoldenLayoutService called directly (SpecLayout)
  layoutInitialized,      \* value of the layoutInitialized subject
  svcObs,                 \* the last call: method, error seen by the caller, focus, result
  \* ---- handleTabClosed with any event (SpecTabClosed)
  tcObs,                  \* the last handleTabClosed call: its event, tabs before, done() calls
  \* ---- PanelWrapperComponent (SpecWrapper)
  pwPc,                   \* "none", "created" (inputs set), "init" (ngOnInit ran), "destroyed"
  Data,                   \* the Data input (NoData: not set)
  isVisible,
  shouldShowSpecialComponent,
  componentRef,           \* the component created in the dynamic container, NULL: none
  pwTimers,               \* pending timers: "retry", "visible", [create |-> component]
  pwRetries               \* how often classification was retried

mVars == <<mPc, mReq, mCands, mPanelRes, mTabRes>>
cVars == <<cPc, cEnv, cExports, cPrevEnv, cPrevExports>>
glVars == <<goldenLayoutContainer, goldenLayout, activeComponents, layoutArr>>
navVars == <<tabs, workSpace, workSpaceItems, pendingPanels, loggedIn, navInitialized,
             calls, panelTimers, restoreTimer, homeTimer, deletes>>
envVars == <<store, idSeq, wsSeq, nCalls, nUser>>
obsVars == <<lastFocus, saveRet, everOverlap>>
uiVars == <<glVars, navVars, envVars, obsVars>>
evVars == <<handlePc, earlyEvents, received, dispatched>>
menuVars == <<closedTabs, contextMenuSelectedTabIndex, menuPc, menuI, transGroup>>
saveVars == <<ssObs, swPc, swI, swSuccess, swLog, swRet>>
svcVars == <<layoutInitialized, svcObs>>
tcVars == <<tcObs>>
pwVars == <<pwPc, Data, isVisible, shouldShowSpecialComponent, componentRef, pwTimers,
            pwRetries>>
xVars == <<evVars, menuVars, saveVars, svcVars, tcVars, pwVars>>
vars == <<uiVars, mVars, cVars, xVars>>

----------------------------------------------------------------------------
(* JavaScript values *)

UNDEF == "<undefined>"
NULL == "<null>"

\* JavaScript truthiness of a value
Truthy(v) == v \notin {UNDEF, NULL, "", "false"}

\* obj[key] on a Configuration object
Get(cfg, k) == IF k \in DOMAIN cfg THEN cfg[k] ELSE UNDEF

\* s.trim().toLowerCase() on the strings that occur
LowerTable ==
  [s \in {"Search Results", "User Views", "Records", "Dashboards",
          "NewRecordValues", "NEWRECORDVALUES", "Entity", "SearchInput",
          "ExtraFilter", "_q"} |->
     CASE s = "Search Results" -> "search results"
       [] s = "User Views" -> "user views"
       [] s = "Records" -> "records"
       [] s = "Dashboards" -> "dashboards"
       [] s = "NewRecordValues" -> "newrecordvalues"
       [] s = "NEWRECORDVALUES" -> "newrecordvalues"
       [] s = "Entity" -> "entity"
       [] s = "SearchInput" -> "searchinput"
       [] s = "ExtraFilter" -> "extrafilter"
       [] s = "_q" -> "_q"]

TrimLower(s) == IF s \in DOMAIN LowerTable THEN LowerTable[s] ELSE s

\* k.startsWith('_')
StartsWithUnderscore(k) == k \in {"_q", "___rawQueryParams"}

----------------------------------------------------------------------------
(* Resource types and identifiers *)

RT_RECORDS == "0a000000-0000-4000-8000-000000000001"
RT_DASHBOARDS == "0a000000-0000-4000-8000-000000000002"
RT_VIEWS == "0a000000-0000-4000-8000-000000000003"
RT_SEARCH == "0a000000-0000-4000-8000-000000000004"

ResourceTypeNames ==
  [id \in {RT_RECORDS, RT_DASHBOARDS, RT_VIEWS, RT_SEARCH} |->
     CASE id = RT_RECORDS -> "Records"
       [] id = RT_DASHBOARDS -> "Dashboards"
       [] id = RT_VIEWS -> "User Views"
       [] id = RT_SEARCH -> "Search Results"]

\* ResourceData.ResourceType: the name of the resource type with this id
ResourceType(d) ==
  IF d.ResourceTypeID \in DOMAIN ResourceTypeNames
  THEN ResourceTypeNames[d.ResourceTypeID] ELSE UNDEF

NewResourceData(id, name, rtid, rrid, cfg) ==
  [ID |-> id, Name |-> name, ResourceTypeID |-> rtid,
   ResourceRecordID |-> rrid, Configuration |-> cfg]

----------------------------------------------------------------------------
(* Panel matching: GoldenLayoutService.findPanelByResource *)

\* keys of the request's Configuration that take part in the default match
\* (variant: the key NewRecordValues compared case-sensitively)
MatchKeys_CaseSensitive(cfg) ==
  {k \in DOMAIN cfg : ~StartsWithUnderscore(k) /\ k # "NewRecordValues"}
MatchKeys(cfg) ==
  {k \in DOMAIN cfg : ~StartsWithUnderscore(k) /\ TrimLower(k) # "newrecordvalues"}

\* the body of the loop of findPanelByResource for one panel
\* (variant: the default branch without the ResourceRecordID comparison,
\* taken for every request)
PanelMatches_NoRecordID(resourceData, panelData) ==
  /\ panelData.ResourceTypeID = resourceData.ResourceTypeID
  /\ \A k \in MatchKeys(resourceData.Configuration) :
        Get(resourceData.Configuration, k) = Get(panelData.Configuration, k)
PanelMatches(resourceData, panelData) ==
  LET rc == resourceData.Configuration
      pc == panelData.Configuration
      rtype == TrimLower(ResourceType(resourceData))
  IN IF Truthy(Get(rc, "isDrawerItem")) /\ Truthy(Get(pc, "isDrawerItem"))
     THEN Get(pc, "drawerItemType") = Get(rc, "drawerItemType")
     ELSE IF Truthy(Get(rc, "isApplicationView")) /\ Truthy(Get(pc, "isApplicationView"))
     THEN /\ Get(pc, "appName") = Get(rc, "appName")
          /\ Get(pc, "entityName") = Get(rc, "entityName")
     ELSE IF rtype = "search results"
     THEN /\ panelData.ResourceTypeID = resourceData.ResourceTypeID
          /\ Get(pc, "Entity") = Get(rc, "Entity")
          /\ Get(pc, "SearchInput") = Get(rc, "SearchInput")
     ELSE IF rtype = "user views"
     THEN IF Truthy(resourceData.ResourceRecordID)
          THEN /\ panelData.ResourceTypeID = resourceData.ResourceTypeID
               /\ panelData.ResourceRecordID = resourceData.ResourceRecordID
               /\ resourceData.ResourceRecordID # NULL
               /\ resourceData.ResourceRecordID # UNDEF
          ELSE /\ panelData.ResourceTypeID = resourceData.ResourceTypeID
               /\ Get(pc, "Entity") = Get(rc, "Entity")
               /\ Get(pc, "ExtraFilter") = Get(rc, "ExtraFilter")
     ELSE /\ panelData.ResourceTypeID = resourceData.ResourceTypeID
          /\ panelData.ResourceRecordID = resourceData.ResourceRecordID
          /\ \A k \in MatchKeys(rc) : Get(rc, k) = Get(pc, k)

\* The position in the registry (insertion order) of the panel returned,
\* 0 when the routine returns undefined.  A registry entry is
\* [key, state], state.resourceData being the panel's resource.
findPanelByResource(panels, resourceData) ==
  LET hits == {i \in 1..Len(panels) :
                 PanelMatches(resourceData, panels[i].state.resourceData)}
  IN IF hits = {} THEN 0 ELSE CHOOSE i \in hits : \A j \in hits : i <= j

----------------------------------------------------------------------------
(* Tab matching: NavigationComponent.findExistingTab.  It is applied to    *)
(* requests whose resource type is registered, where data.ResourceType is  *)
(* a string.                                                               *)

\* (variant: a 'user views' request without a ResourceRecordID matches no
\* tab)
TabMatches_SavedViewsOnly(data, t) ==
  LET dc == data.Configuration
      tc == t.data.Configuration
      rtype == TrimLower(ResourceType(data))
  IN IF rtype = "search results"
     THEN /\ t.data.ResourceTypeID = data.ResourceTypeID
          /\ Get(tc, "Entity") = Get(dc, "Entity")
          /\ Get(tc, "SearchInput") = Get(dc, "SearchInput")
     ELSE IF rtype = "user views"
     THEN IF Truthy(data.ResourceRecordID)
          THEN /\ t.data.ResourceTypeID = data.ResourceTypeID
               /\ t.data.ResourceRecordID = data.ResourceRecordID
               /\ data.ResourceRecordID # NULL
               /\ data.ResourceRecordID # UNDEF
          ELSE FALSE
     ELSE /\ t.data.ResourceTypeID = data.ResourceTypeID
          /\ t.data.ResourceRecordID = data.ResourceRecordID
          /\ \A k \in MatchKeys(dc) : Get(dc, k) = Get(tc, k)
TabMatches(data, t) ==
  LET dc == data.Configuration
      tc == t.data.Configuration
      rtype == TrimLower(ResourceType(data))
  IN IF rtype = "search results"
     THEN /\ t.data.ResourceTypeID = data.ResourceTypeID
          /\ Get(tc, "Entity") = Get(dc, "Entity")
          /\ Get(tc, "SearchInput") = Get(dc, "SearchInput")
     ELSE IF rtype = "user views"
     THEN IF Truthy(data.ResourceRecordID)
          THEN /\ t.data.ResourceTypeID = data.ResourceTypeID
               /\ t.data.ResourceRecordID = data.ResourceRecordID
               /\ data.ResourceRecordID # NULL
               /\ data.ResourceRecordID # UNDEF
          ELSE /\ t.data.ResourceTypeID = data.ResourceTypeID
               /\ Get(tc, "Entity") = Get(dc, "Entity")
               /\ Get(tc, "ExtraFilter") = Get(dc, "ExtraFilter")
     ELSE /\ t.data.ResourceTypeID = data.ResourceTypeID
          /\ t.data.ResourceRecordID = data.ResourceRecordID
          /\ \A k \in MatchKeys(dc) : Get(dc, k) = Get(tc, k)

\* position in tabs of the tab returned by tabs.find, 0 when none
findExistingTab(tabList, data) ==
  LET hits == {i \in 1..Len(tabList) : TabMatches(data, tabList[i])}
  IN IF hits = {} THEN 0 ELSE CHOOSE i \in hits : \A j \in hits : i <= j

----------------------------------------------------------------------------
(* Identifiers, JSON text, workspace items *)

CfgEmpty == [k \in {} |-> ""]

\* generatePanelId(): the n-th generated `panel-<time>-<random>` id
PanelId(n) == "panel-" \o ToString(n)

\* the ID the store gives the n-th workspace item it creates
WsId(n) == "0b000000-0000-4000-8000-00000000000" \o ToString(n)

\* /^[0-9a-f]{8}-[0-9a-f]{4}-[0-9a-f]{4}-[0-9a-f]{4}-[0-9a-f]{12}$/i.test(s),
\* on the strings that occur
IsValidGuid(s) == s \in (DOMAIN ResourceTypeNames \cup {WsId(n) : n \in 1..9})

LAYOUT_CONFIG_NAME == "___GOLDEN_LAYOUT_CONFIG___"
WORKSPACE_ID == "W"
UNSAVED == "<new entity>"

\* JSON.stringify(obj): keys whose value is undefined are left out
JsonStringify(obj) ==
  [text |-> TRUE, obj |-> [k \in {x \in DOMAIN obj : obj[x] # UNDEF} |-> obj[k]]]
\* JSON text of { goldenLayout: layout }
LayoutJson(layout) == [text |-> TRUE, obj |-> [goldenLayout |-> layout]]
\* JSON.parse(text)
JsonParse(j) == j.obj

NoLayout == [arr |-> "", content |-> <<>>]
LayoutArrs == {"A0", "A1"}

Put(st, id, item) == [k \in DOMAIN st \cup {id} |-> IF k = id THEN item ELSE st[k]]
Remove(st, id) == [k \in DOMAIN st \ {id} |-> st[k]]

NoData == NewResourceData(UNDEF, "", "", "", CfgEmpty)
NoFocus == [called |-> FALSE, id |-> "", hit |-> FALSE, data |-> NoData,
            owner |-> 0, overlapped |-> FALSE]
\* what a method of the service returned: undefined, null or a value
RetUndefined == [kind |-> "undefined"]
RetNull == [kind |-> "null"]
RetValue(v) == [kind |-> "value", value |-> v]
NoServiceCall == [op |-> "", threw |-> FALSE, focused |-> FALSE, ret |-> RetUndefined]
NoTabClosed == [called |-> FALSE, index |-> [null |-> TRUE, n |-> 0],
                newTabIndex |-> [null |-> TRUE, n |-> 0], before |-> <<>>,
                done |-> 0, threw |-> FALSE]
NoSave == [called |-> FALSE, data |-> NoData, ret |-> FALSE, wrote |-> FALSE]

----------------------------------------------------------------------------
(* GoldenLayoutService: the registry of active components *)

Keys(reg) == {reg[i].key : i \in 1..Len(reg)}

\* Map.set: an existing key keeps its position
MapSet(reg, key, entry) ==
  IF key \in Keys(reg)
  THEN [i \in 1..Len(reg) |-> IF reg[i].key = key THEN entry ELSE reg[i]]
  ELSE Append(reg, entry)

\* Map.delete
MapDelete(reg, key) == SelectSeq(reg, LAMBDA e : e.key # key)

\* createComponent: const panelId = state?.id || this.generatePanelId()
CreateKey(state, seq) == IF Truthy(state.id) THEN state.id ELSE PanelId(seq)

\* createComponent stores the panel under panelId; owner tells which
\* AddOrSelectPanel call holds the same state object (0: none)
createComponent(reg, state, owner, seq) ==
  MapSet(reg, CreateKey(state, seq),
         [key |-> CreateKey(state, seq), state |-> state, owner |-> owner])

\* GoldenLayoutContainerComponent.addPanel -> GoldenLayoutService.addPanel:
\* without a layout instance the service throws and the container catches
addPanel(reg, gl, state, owner, seq) ==
  IF ~gl THEN reg ELSE createComponent(reg, state, owner, seq)

\* GoldenLayoutService.addPanel: what the caller sees and the registry left;
\* an error of goldenLayout.addComponent is caught inside
\* (variant: without the test for a layout instance)
GoldenLayoutService_addPanel_NoTest(reg, gl, state, owner, seq) ==
  [threw |-> FALSE, reg |-> createComponent(reg, state, owner, seq)]
GoldenLayoutService_addPanel(reg, gl, state, owner, seq) ==
  IF ~gl THEN [threw |-> TRUE, reg |-> reg]
  ELSE [threw |-> FALSE, reg |-> createComponent(reg, state, owner, seq)]

\* GoldenLayoutContainerComponent.addPanel: try { service.addPanel } catch
GoldenLayoutContainer_addPanel(reg, gl, state, owner, seq) ==
  [threw |-> FALSE, reg |-> GoldenLayoutService_addPanel(reg, gl, state, owner, seq).reg]

\* number of generated ids addPanel consumes
addPanelIds(gl, state) == IF gl /\ ~Truthy(state.id) THEN 1 ELSE 0

\* focusPanel(panelId): container.focus() runs iff panelId is a registry key
focusPanel(reg, panelId) == panelId \in Keys(reg)

\* getLayout(): goldenLayout.saveLayout()
getLayout(reg, arr) ==
  [arr |-> arr, content |-> [i \in 1..Len(reg) |-> reg[i].state]]

\* GoldenLayoutService.getLayout(): this.goldenLayout?.saveLayout() || null
GoldenLayoutService_getLayout(reg, gl, arr) ==
  IF gl THEN RetValue(getLayout(reg, arr)) ELSE RetNull

\* goldenLayout.loadLayout(config): the components of config are created
RECURSIVE CreateAll(_, _, _)
CreateAll(reg, states, seq) ==
  IF states = <<>> THEN reg
  ELSE CreateAll(createComponent(reg, Head(states), 0, seq), Tail(states),
                 seq + addPanelIds(TRUE, Head(states)))

RECURSIVE CountGenerated(_)
CountGenerated(states) ==
  IF states = <<>> THEN 0
  ELSE addPanelIds(TRUE, Head(states)) + CountGenerated(Tail(states))

\* the event GoldenLayoutContainerComponent builds from panelDestroyed
PanelClosedEvent(panelId) == [panelId |-> panelId, resourceData |-> UNDEF]

----------------------------------------------------------------------------
(* NavigationComponent: resource descriptors it builds *)

DrawerTexts == {"Home", "Dashboards"}
PathOf == [t \in DrawerTexts |-> IF t = "Home" THEN "/home" ELSE "/dashboards"]

\* specialDrawerItems of onDrawerSelect, drawerTypeMap of selectDrawerItem
SpecialDrawerItems ==
  [t \in {"Home", "Settings", "Ask Skip", "Files", "Lists", "Data"} |->
     IF t = "Ask Skip" THEN "AskSkip" ELSE t]

DrawerData(id, text, type) ==
  NewResourceData(id, text, "drawer-item", "",
    [path |-> PathOf[text], drawerItemType |-> type, isDrawerItem |-> "true"])

\* sharedService.ResourceTypeByName(name): the id of the type, UNDEF if none
ResourceTypeByName(name) ==
  IF \E id \in DOMAIN ResourceTypeNames : ResourceTypeNames[id] = name
  THEN CHOOSE id \in DOMAIN ResourceTypeNames : ResourceTypeNames[id] = name
  ELSE UNDEF

\* the ResourceData onDrawerSelect builds for a drawer item with a panel
onDrawerSelectData(id, text) ==
  IF text \in DOMAIN SpecialDrawerItems
  THEN DrawerData(id, text, SpecialDrawerItems[text])
  ELSE NewResourceData(id, text, ResourceTypeByName(text), NULL,
         [path |-> PathOf[text], isResourceBrowser |-> "true",
          resourceTypeName |-> text])

\* the ResourceData selectDrawerItem builds
selectDrawerItemData(id, text) ==
  DrawerData(id, text,
    IF text \in DOMAIN SpecialDrawerItems THEN SpecialDrawerItems[text] ELSE text)

\* the ResourceData handleApplicationRoute builds for /app/Sales/Deals
AppViewData(id) ==
  NewResourceData(id, "Sales - Deals", "application-view", "",
    [appName |-> "Sales", entityName |-> "Deals", isApplicationView |-> "true"])

\* resources other components ask for through component events
EventData ==
  { NewResourceData(UNDEF, "Deal 1", RT_RECORDS, "r1", [Entity |-> "Deals"]) }

IsDrawerItem(d) == Truthy(Get(d.Configuration, "isDrawerItem"))

\* SaveSingleWorkspaceItem: !(!isValidGuid || isDrawerItem || isResourceBrowser)
\* (variant: without the isResourceBrowser test)
IsSaveable_NoBrowserCheck(d) ==
  /\ Truthy(d.ResourceTypeID) /\ IsValidGuid(d.ResourceTypeID)
  /\ ~Truthy(Get(d.Configuration, "isDrawerItem"))
IsSaveable(d) ==
  /\ Truthy(d.ResourceTypeID) /\ IsValidGuid(d.ResourceTypeID)
  /\ ~Truthy(Get(d.Configuration, "isDrawerItem"))
  /\ ~Truthy(Get(d.Configuration, "isResourceBrowser"))

\* the tab LoadWorkspaceItems builds for a workspace item
ItemData(item) ==
  NewResourceData(item.ID, item.Name, item.ResourceTypeID, item.ResourceRecordID,
    IF item.Configuration.text THEN JsonParse(item.Configuration) ELSE CfgEmpty)
\* (variant: the tab does not carry the entity object of its item)
ItemTab_NoEntity(item) ==
  [id |-> item.ID, data |-> ItemData(item), workspaceItem |-> NULL, call |-> 0]
\* (call tells which AddOrSelectPanel call built a tab; 0: none)
ItemTab(item) ==
  [id |-> item.ID, data |-> ItemData(item), workspaceItem |-> item.ID, call |-> 0]
ItemPanelState(item) ==
  [id |-> item.ID, workspaceItemId |-> item.ID, resourceData |-> ItemData(item)]

\* RunView on "Workspace Items" with OrderBy "Sequence ASC": every order of
\* the workspace's items that is ascending in Sequence
LoadedItemLists(st) ==
  LET ids == {id \in DOMAIN st : st[id].WorkspaceID = WORKSPACE_ID}
      n == Cardinality(ids)
  IN { [i \in 1..n |-> st[f[i]]] :
         f \in {g \in [1..n -> ids] :
                  /\ \A i, j \in 1..n : i # j => g[i] # g[j]
                  /\ \A i, j \in 1..n : i < j => st[g[i]].Sequence <= st[g[j]].Sequence} }

\* saveLayoutConfiguration(layout): the layout is logged, nothing is stored
saveLayoutConfiguration(st, layout) == st

\* handlePanelClosed: the position in tabs of the tab it closes, 0 for none
handlePanelClosedTab(tabList, event) ==
  IF event.resourceData = UNDEF THEN 0
  ELSE LET hits == {i \in 1..Len(tabList) : tabList[i].data.ID = event.resourceData.ID}
       IN IF hits = {} THEN 0 ELSE CHOOSE i \in hits : \A j \in hits : i <= j

\* tabs.splice(index, 1)
Splice(seq, index) == [i \in 1..(Len(seq) - 1) |-> IF i < index THEN seq[i] ELSE seq[i + 1]]

----------------------------------------------------------------------------
(* Spec: the navigation component over the layout service and the store    *)

\* the user acts at most MaxUserActions times: navigating, selecting a
\* drawer item, opening a record, closing a panel or a tab, rearranging the
\* layout
MaxUserActions == 2

\* workspace items found in the store when the application starts
LegacyItem ==
  [ID |-> WsId(1), Name |-> "Deal 2", WorkspaceID |-> WORKSPACE_ID,
   ResourceTypeID |-> RT_RECORDS, ResourceRecordID |-> "r2", Sequence |-> 0,
   Configuration |-> JsonStringify([Entity |-> "Deals"])]
LegacyLayoutItem ==
  [ID |-> WsId(2), Name |-> LAYOUT_CONFIG_NAME, WorkspaceID |-> WORKSPACE_ID,
   ResourceTypeID |-> RT_RECORDS, ResourceRecordID |-> "", Sequence |-> 1,
   Configuration |-> LayoutJson([arr |-> "A1", content |-> <<ItemPanelState(LegacyItem)>>])]
InitStores ==
  { CfgEmpty,
    [id \in {WsId(1)} |-> LegacyItem],
    [id \in {WsId(1), WsId(2)} |-> IF id = WsId(1) THEN LegacyItem ELSE LegacyLayoutItem] }

UiStart(st) ==
  /\ goldenLayoutContainer = FALSE
  /\ goldenLayout = FALSE
  /\ activeComponents = <<>>
  /\ layoutArr = "A0"
  /\ tabs = <<>>
  /\ workSpace = UNDEF
  /\ workSpaceItems = <<>>
  /\ pendingPanels = <<>>
  /\ loggedIn = FALSE
  /\ navInitialized = FALSE
  /\ calls = {}
  /\ panelTimers = <<>>
  /\ restoreTimer = NoLayout
  /\ homeTimer = FALSE
  /\ deletes = {}
  /\ store = st
  /\ idSeq = 1
  /\ wsSeq = 2
  /\ nCalls = 0
  /\ nUser = 0
  /\ lastFocus = NoFocus
  /\ saveRet = NoSave
  /\ everOverlap = FALSE
  /\ handlePc = "idle"
  /\ earlyEvents = <<>>
  /\ received = 0
  /\ dispatched = <<>>
  /\ closedTabs = <<>>
  /\ contextMenuSelectedTabIndex = -1
  /\ menuPc = "idle"
  /\ menuI = 1
  /\ transGroup = <<>>
  /\ ssObs = [called |-> FALSE]
  /\ swPc = "idle"
  /\ swI = 1
  /\ swSuccess = TRUE
  /\ swLog = <<>>
  /\ swRet = UNDEF
  /\ layoutInitialized = FALSE
  /\ svcObs = NoServiceCall
  /\ tcObs = NoTabClosed
  /\ pwPc = "none"
  /\ Data = NoData
  /\ isVisible = FALSE
  /\ shouldShowSpecialComponent = FALSE
  /\ componentRef = NULL
  /\ pwTimers = {}
  /\ pwRetries = 0

UiIdle == UiStart(CfgEmpty)

(* AddOrSelectPanel up to its first await.  st gathers the fields a start  *)
(* changes; reg is the registry it searches.                               *)
CurSt ==
  [calls |-> calls, lastFocus |-> lastFocus, pendingPanels |-> pendingPanels,
   nCalls |-> nCalls, everOverlap |-> everOverlap]

ApplySt(st) ==
  /\ calls' = st.calls
  /\ lastFocus' = st.lastFocus
  /\ pendingPanels' = st.pendingPanels
  /\ nCalls' = st.nCalls
  /\ everOverlap' = st.everOverlap

NewCall(cid, data, origin) ==
  [cid |-> cid, data |-> data, origin |-> origin, pc |-> "label",
   tab |-> [id |-> "", data |-> data, workspaceItem |-> NULL, call |-> cid],
   index |-> 0]

AddOrSelectPanel_Start(st, hasContainer, reg, data, origin) ==
  IF ~hasContainer
  THEN [st EXCEPT !.pendingPanels = Append(@, data)]
  ELSE LET i == findPanelByResource(reg, data)
       IN IF i > 0
          THEN [st EXCEPT !.lastFocus =
                  [called |-> TRUE, id |-> reg[i].state.id,
                   hit |-> focusPanel(reg, reg[i].state.id), data |-> data,
                   owner |-> reg[i].owner,
                   overlapped |-> st.everOverlap \/ st.calls # {}]]
          ELSE [st EXCEPT !.calls = @ \cup {NewCall(st.nCalls + 1, data, origin)},
                          !.nCalls = @ + 1,
                          !.everOverlap = @ \/ st.calls # {}]

\* pendingPanelsCopy.forEach(async data => await this.AddOrSelectPanel(data))
\* (variant: the last queued resource is left out)
RECURSIVE StartEach_SkipLast(_, _, _)
StartEach_SkipLast(st, reg, datas) ==
  IF Len(datas) <= 1 THEN st
  ELSE StartEach_SkipLast(AddOrSelectPanel_Start(st, TRUE, reg, Head(datas), "pending"),
                          reg, Tail(datas))
RECURSIVE StartEach(_, _, _)
StartEach(st, reg, datas) ==
  IF datas = <<>> THEN st
  ELSE StartEach(AddOrSelectPanel_Start(st, TRUE, reg, Head(datas), "pending"),
                 reg, Tail(datas))

\* the view child of the navigation component is set
ViewInit ==
  /\ ~goldenLayoutContainer
  /\ goldenLayoutContainer' = TRUE
  /\ UNCHANGED <<goldenLayout, activeComponents, layoutArr, navVars, envVars,
                 obsVars, mVars, cVars, xVars>>

\* GoldenLayoutContainerComponent.initializeGoldenLayout -> service.initialize
LayoutInitialize ==
  /\ goldenLayoutContainer
  /\ ~goldenLayout
  /\ goldenLayout' = TRUE
  /\ layoutInitialized' = TRUE
  /\ UNCHANGED <<goldenLayoutContainer, activeComponents, layoutArr, navVars,
                 envVars, obsVars, mVars, cVars, evVars, menuVars, saveVars, svcObs, tcVars, pwVars>>

\* NavigationComponent.initializeGoldenLayout, run once the layout is
\* initialized: flush pendingPanels, arm the empty-layout timer
NavInitializeGoldenLayout ==
  /\ goldenLayout
  /\ goldenLayoutContainer
  /\ ~navInitialized
  /\ navInitialized' = TRUE
  /\ ApplySt(StartEach([CurSt EXCEPT !.pendingPanels = <<>>], activeComponents,
                       pendingPanels))
  /\ homeTimer' = TRUE
  /\ UNCHANGED <<glVars, tabs, workSpace, workSpaceItems, loggedIn, panelTimers,
                 restoreTimer, deletes, store, idSeq, wsSeq, nUser, saveRet,
                 mVars, cVars, xVars>>

\* the 500 ms timer of initializeGoldenLayout
\* (variant: the callback adds nothing)
HomeTimerFire_NoHome ==
  /\ homeTimer
  /\ homeTimer' = FALSE
  /\ UNCHANGED <<glVars, tabs, workSpace, workSpaceItems, pendingPanels, loggedIn,
                 navInitialized, calls, panelTimers, restoreTimer, deletes, envVars,
                 obsVars, mVars, cVars, xVars>>
HomeTimerFire ==
  /\ homeTimer
  /\ homeTimer' = FALSE
  /\ IF Len(activeComponents) = 0
     THEN /\ ApplySt(AddOrSelectPanel_Start(CurSt, goldenLayoutContainer, activeComponents,
                        DrawerData(PanelId(idSeq), "Home", "Home"), "home"))
          /\ idSeq' = idSeq + 1
     ELSE /\ ApplySt(CurSt)
          /\ idSeq' = idSeq
  /\ UNCHANGED <<glVars, tabs, workSpace, workSpaceItems, loggedIn, navInitialized,
                 panelTimers, restoreTimer, deletes, store, wsSeq, nUser,
                 saveRet, mVars, cVars, xVars>>

\* loadApp, loadWorkspace, LoadWorkspaceItems
LoadWorkspace ==
  /\ workSpace' = WORKSPACE_ID
  /\ \E items \in LoadedItemLists(store) :
       LET cfgs == {i \in 1..Len(items) : items[i].Name = LAYOUT_CONFIG_NAME}
           cfgItem == items[CHOOSE i \in cfgs : \A j \in cfgs : i <= j]
           restore == /\ cfgs # {}
                      /\ cfgItem.Configuration.text
                      /\ "goldenLayout" \in DOMAIN JsonParse(cfgItem.Configuration)
                      /\ goldenLayoutContainer
           shown == SelectSeq(items, LAMBDA it : it.Name # LAYOUT_CONFIG_NAME)
           addHome == ~restore /\ Len(items) = 0 /\ goldenLayoutContainer
       IN /\ workSpaceItems' = items
          /\ tabs' = [i \in 1..Len(shown) |-> ItemTab(shown[i])]
          /\ restoreTimer' = IF restore THEN JsonParse(cfgItem.Configuration).goldenLayout
                             ELSE restoreTimer
          /\ panelTimers' = IF ~restore /\ goldenLayoutContainer
                            THEN panelTimers \o [i \in 1..Len(shown) |-> ItemPanelState(shown[i])]
                            ELSE panelTimers
          /\ IF addHome
             THEN /\ ApplySt(AddOrSelectPanel_Start(CurSt, TRUE, activeComponents,
                               DrawerData(PanelId(idSeq), "Home", "Home"), "home"))
                  /\ idSeq' = idSeq + 1
             ELSE /\ ApplySt(CurSt)
                  /\ idSeq' = idSeq
  /\ UNCHANGED <<glVars, navInitialized, homeTimer, deletes, store, wsSeq, nUser, saveRet, mVars, cVars>>

\* handleEvent(LoggedIn) with no event received before it
LoggedIn ==
  /\ ~loggedIn
  /\ handlePc = "idle"
  /\ loggedIn' = TRUE
  /\ LoadWorkspace
  /\ UNCHANGED xVars

\* onDrawerSelect(ev) with the layout container present
OnDrawerSelect(text) ==
  /\ loggedIn
  /\ goldenLayoutContainer
  /\ nUser < MaxUserActions
  /\ nUser' = nUser + 1
  /\ idSeq' = idSeq + 1
  /\ ApplySt(AddOrSelectPanel_Start(CurSt, TRUE, activeComponents,
                                    onDrawerSelectData(PanelId(idSeq), text), "plain"))
  /\ UNCHANGED <<glVars, tabs, workSpace, workSpaceItems, loggedIn, navInitialized,
                 panelTimers, restoreTimer, homeTimer, deletes, store, wsSeq, saveRet, mVars, cVars, xVars>>

\* selectDrawerItem(index), from NavigateFromUrl, with the container present
SelectDrawerItem(text) ==
  /\ loggedIn
  /\ goldenLayoutContainer
  /\ nUser < MaxUserActions
  /\ nUser' = nUser + 1
  /\ idSeq' = idSeq + 1
  /\ ApplySt(AddOrSelectPanel_Start(CurSt, TRUE, activeComponents,
                                    selectDrawerItemData(PanelId(idSeq), text), "plain"))
  /\ UNCHANGED <<glVars, tabs, workSpace, workSpaceItems, loggedIn, navInitialized,
                 panelTimers, restoreTimer, homeTimer, deletes, store, wsSeq, saveRet, mVars, cVars, xVars>>

\* handleApplicationRoute(url), from NavigateFromUrl
AppRoute ==
  /\ nUser < MaxUserActions
  /\ nUser' = nUser + 1
  /\ idSeq' = idSeq + 1
  /\ ApplySt(AddOrSelectPanel_Start(CurSt, goldenLayoutContainer, activeComponents,
                                    AppViewData(PanelId(idSeq)), "plain"))
  /\ UNCHANGED <<glVars, tabs, workSpace, workSpaceItems, loggedIn, navInitialized,
                 panelTimers, restoreTimer, homeTimer, deletes, store, wsSeq, saveRet, mVars, cVars, xVars>>

\* handleEvent(ComponentEvent) -> AddOrSelectTab -> AddOrSelectPanel, once
\* logged in and with the layout container present
ComponentEvent(data) ==
  /\ loggedIn
  /\ goldenLayoutContainer
  /\ nUser < MaxUserActions
  /\ nUser' = nUser + 1
  /\ ApplySt(AddOrSelectPanel_Start(CurSt, TRUE, activeComponents, data, "plain"))
  /\ UNCHANGED <<glVars, tabs, workSpace, workSpaceItems, loggedIn, navInitialized,
                 panelTimers, restoreTimer, homeTimer, deletes, store, idSeq, wsSeq, saveRet, mVars, cVars, xVars>>

\* AddOrSelectPanel after `await GetWorkspaceItemDisplayName(data)`: the
\* panel is added; a drawer item is done, any other resource goes through
\* SaveSingleWorkspaceItem up to its first await
AddOrSelectPanel_AddPanel(c) ==
  /\ c \in calls
  /\ c.pc = "label"
  /\ LET isDrawer == IsDrawerItem(c.data)
         panelId == IF isDrawer THEN PanelId(idSeq) ELSE ""
         seq1 == IF isDrawer THEN idSeq + 1 ELSE idSeq
         panelState == [id |-> panelId, workspaceItemId |-> panelId, resourceData |-> c.data]
         reg1 == addPanel(activeComponents, goldenLayout, panelState, c.cid, seq1)
         seq2 == seq1 + addPanelIds(goldenLayout, panelState)
         newTab == [id |-> panelId, data |-> c.data, workspaceItem |-> NULL,
                    call |-> c.cid]
         rest == [CurSt EXCEPT !.calls = calls \ {c}]
         \* addDefaultHomePanel goes on to selectDrawerItem(Home) when the
         \* drawer is loaded
         chain == isDrawer /\ c.origin = "home" /\ (loggedIn \/ handlePc = "loaded")
     IN /\ activeComponents' = reg1
        /\ IF isDrawer
           THEN /\ IF chain
                   THEN /\ ApplySt(AddOrSelectPanel_Start(rest, goldenLayoutContainer, reg1,
                                     selectDrawerItemData(PanelId(seq2), "Home"), "plain"))
                        /\ idSeq' = seq2 + 1
                   ELSE /\ ApplySt(rest)
                        /\ idSeq' = seq2
                /\ UNCHANGED <<tabs, saveRet>>
           ELSE /\ idSeq' = seq2
                /\ IF ~IsSaveable(c.data)
                   THEN \* return true: nothing is saved
                        /\ ApplySt(rest)
                        /\ saveRet' = [called |-> TRUE, data |-> c.data, ret |-> TRUE, wrote |-> FALSE]
                        /\ tabs' = Append(tabs, newTab)
                   ELSE IF workSpace = UNDEF
                   THEN \* throw new Error('No workspace loaded'), caught: false
                        /\ ApplySt(rest)
                        /\ saveRet' = [called |-> TRUE, data |-> c.data, ret |-> FALSE, wrote |-> FALSE]
                        /\ tabs' = Append(tabs, newTab)
                   ELSE \* index = tabs.length; await md.GetEntityObject(...)
                        /\ ApplySt([rest EXCEPT !.calls =
                              @ \cup {[c EXCEPT !.pc = "save", !.tab = newTab,
                                                !.index = Len(tabs)]}])
                        /\ UNCHANGED <<tabs, saveRet>>
  /\ UNCHANGED <<goldenLayoutContainer, goldenLayout, layoutArr, workSpace,
                 workSpaceItems, loggedIn, navInitialized, panelTimers, restoreTimer,
                 homeTimer, deletes, store, wsSeq, nUser,
                 mVars, cVars, xVars>>

\* panelState.id = newTab.id; panelState.workspaceItemId = newTab.id, on the
\* state object the call handed to addPanel
\* (variant: workspaceItemId left as it was)
SetPanelStateId_IdOnly(reg, cid, id) ==
  [i \in 1..Len(reg) |->
     IF reg[i].owner = cid THEN [reg[i] EXCEPT !.state.id = id] ELSE reg[i]]
SetPanelStateId(reg, cid, id) ==
  [i \in 1..Len(reg) |->
     IF reg[i].owner = cid
     THEN [reg[i] EXCEPT !.state.id = id, !.state.workspaceItemId = id]
     ELSE reg[i]]

\* the workspace item SaveSingleWorkspaceItem saves for tab data d
SavedItem(id, d, index, ws) ==
  [ID |-> id,
   Name |-> IF Truthy(d.Name) THEN d.Name
            ELSE ResourceType(d) \o " Record:" \o d.ResourceRecordID,
   WorkspaceID |-> ws,
   ResourceTypeID |-> d.ResourceTypeID, ResourceRecordID |-> d.ResourceRecordID,
   Sequence |-> index, Configuration |-> JsonStringify(d.Configuration)]

\* the rest of SaveSingleWorkspaceItem (ok: what wsItem.Save() returns) and
\* of AddOrSelectPanel
AddOrSelectPanel_Saved(c, ok) ==
  /\ c \in calls
  /\ c.pc = "save"
  /\ LET d == c.data
         \* tab.data.ResourceRecordID.toString() throws on null/undefined
         throws == d.ResourceRecordID \in {NULL, UNDEF}
         existing == Truthy(d.ID) /\ IsValidGuid(d.ID)
         loaded == existing /\ d.ID \in DOMAIN store
         wsid == IF existing THEN d.ID ELSE WsId(wsSeq + 1)
         success == ok /\ ~throws /\ (existing => loaded)
         item == IF loaded
                 THEN [SavedItem(wsid, d, c.index, workSpace) EXCEPT
                         !.Name = store[wsid].Name,
                         !.WorkspaceID = store[wsid].WorkspaceID,
                         !.ResourceTypeID = store[wsid].ResourceTypeID]
                 ELSE SavedItem(wsid, d, c.index, workSpace)
         newTab == IF success
                   THEN [c.tab EXCEPT !.id = wsid, !.workspaceItem = wsid]
                   ELSE [c.tab EXCEPT !.workspaceItem = UNSAVED]
     IN /\ store' = IF success THEN Put(store, wsid, item) ELSE store
        /\ wsSeq' = IF success /\ ~existing THEN wsSeq + 1 ELSE wsSeq
        /\ saveRet' = [called |-> TRUE, data |-> d, ret |-> success, wrote |-> success]
        /\ activeComponents' =
             IF Truthy(newTab.id) THEN SetPanelStateId(activeComponents, c.cid, newTab.id)
             ELSE activeComponents
        /\ tabs' = Append(tabs, newTab)
        /\ calls' = calls \ {c}
  /\ UNCHANGED <<goldenLayoutContainer, goldenLayout, layoutArr, workSpace,
                 workSpaceItems, pendingPanels, loggedIn, navInitialized, panelTimers,
                 restoreTimer, homeTimer, deletes, idSeq, nCalls, nUser,
                 lastFocus, everOverlap, mVars, cVars, xVars>>

\* a 100 ms timer of LoadWorkspaceItems adds the panel of a loaded item
PanelTimerFire ==
  /\ panelTimers # <<>>
  /\ panelTimers' = Tail(panelTimers)
  /\ activeComponents' =
       IF goldenLayoutContainer
       THEN addPanel(activeComponents, goldenLayout, Head(panelTimers), 0, idSeq)
       ELSE activeComponents
  /\ idSeq' = IF goldenLayoutContainer
              THEN idSeq + addPanelIds(goldenLayout, Head(panelTimers)) ELSE idSeq
  /\ UNCHANGED <<goldenLayoutContainer, goldenLayout, layoutArr, tabs, workSpace,
                 workSpaceItems, pendingPanels, loggedIn, navInitialized, calls,
                 restoreTimer, homeTimer, deletes, store, wsSeq, nCalls, nUser, obsVars, mVars, cVars, xVars>>

\* the 200 ms timer of LoadWorkspaceItems: loadLayout(config.goldenLayout);
\* the components of the running layout are destroyed (handlePanelClosed
\* closes no tab for them), those of the saved layout are created
RestoreLayoutFire ==
  /\ restoreTimer # NoLayout
  /\ restoreTimer' = NoLayout
  /\ IF goldenLayout
     THEN /\ activeComponents' = CreateAll(<<>>, restoreTimer.content, idSeq)
          /\ idSeq' = idSeq + CountGenerated(restoreTimer.content)
          /\ layoutArr' = restoreTimer.arr
     ELSE UNCHANGED <<activeComponents, idSeq, layoutArr>>
  /\ UNCHANGED <<goldenLayoutContainer, goldenLayout, tabs, workSpace,
                 workSpaceItems, pendingPanels, loggedIn, navInitialized, calls,
                 panelTimers, homeTimer, deletes, store, wsSeq, nCalls, nUser, obsVars, mVars, cVars, xVars>>

\* closeTab(tab, 0), tab at position i: removeWorkspaceItem(tab, null) is
\* started and takes the tab out of tabs before its first await
closeTab_Tabs(tabList, i) == IF i > 0 THEN Splice(tabList, i) ELSE tabList
closeTab_Deletes(del, tabList, i) == IF i > 0 THEN del \cup {tabList[i]} ELSE del

\* a panel is closed in the layout (by the user or closePanel):
\* destroyComponent, panelDestroyed, handlePanelClosed
ClosePanel(key) ==
  /\ key \in Keys(activeComponents)
  /\ nUser < MaxUserActions
  /\ nUser' = nUser + 1
  /\ activeComponents' = MapDelete(activeComponents, key)
  /\ LET i == handlePanelClosedTab(tabs, PanelClosedEvent(key))
     IN /\ tabs' = closeTab_Tabs(tabs, i)
        /\ deletes' = closeTab_Deletes(deletes, tabs, i)
  /\ UNCHANGED <<goldenLayoutContainer, goldenLayout, layoutArr, workSpace,
                 workSpaceItems, pendingPanels, loggedIn, navInitialized, calls,
                 panelTimers, restoreTimer, homeTimer, store, idSeq, wsSeq, nCalls,
                 obsVars, mVars, cVars, xVars>>

\* handleTabClosed(event) for the tab at strip index `index`, new tab Home
HandleTabClosed(index) ==
  /\ index \in 1..Len(tabs)
  /\ nUser < MaxUserActions
  /\ nUser' = nUser + 1
  /\ tabs' = closeTab_Tabs(tabs, index)
  /\ deletes' = closeTab_Deletes(deletes, tabs, index)
  /\ UNCHANGED <<glVars, workSpace, workSpaceItems, pendingPanels, loggedIn,
                 navInitialized, calls, panelTimers, restoreTimer, homeTimer,
                 store, idSeq, wsSeq, nCalls, obsVars, mVars, cVars, xVars>>

\* the rest of removeWorkspaceItem(tab, null): load the entity if the tab
\* holds none, then entity.Delete() (ok: what Delete() returns)
RemoveWorkspaceItem_Delete(tab, ok) ==
  /\ tab \in deletes
  /\ deletes' = deletes \ {tab}
  /\ LET lazyLoad == ~Truthy(tab.workspaceItem) /\ Truthy(tab.id)
         entity == IF lazyLoad THEN tab.id ELSE tab.workspaceItem
     IN store' = IF Truthy(entity) /\ ok /\ entity \in DOMAIN store
                 THEN Remove(store, entity) ELSE store
  /\ UNCHANGED <<glVars, tabs, workSpace, workSpaceItems, pendingPanels, loggedIn,
                 navInitialized, calls, panelTimers, restoreTimer, homeTimer,
                 idSeq, wsSeq, nCalls, nUser, obsVars, mVars, cVars, xVars>>

\* the layout engine reports 'stateChanged' after the user rearranged the
\* panels: layoutChanged -> handleLayoutChanged(layout)
LayoutStateChanged(arr) ==
  /\ goldenLayout
  /\ arr # layoutArr
  /\ nUser < MaxUserActions
  /\ nUser' = nUser + 1
  /\ layoutArr' = arr
  /\ IF workSpace # UNDEF /\ goldenLayoutContainer
     THEN store' = saveLayoutConfiguration(store, getLayout(activeComponents, arr))
     ELSE store' = store
  /\ UNCHANGED <<goldenLayoutContainer, goldenLayout, activeComponents, navVars,
                 idSeq, wsSeq, nCalls, lastFocus, saveRet,
                 everOverlap, mVars, cVars, xVars>>

Init ==
  /\ \E st \in InitStores : UiStart(st)
  /\ mPc = "idle"
  /\ mReq = NoData
  /\ mCands = <<>>
  /\ mPanelRes = 0
  /\ mTabRes = 0
  /\ cPc = "idle"
  /\ cEnv = CfgEmpty
  /\ cExports = CfgEmpty
  /\ cPrevEnv = CfgEmpty
  /\ cPrevExports = CfgEmpty

Next ==
  \/ ViewInit
  \/ LayoutInitialize
  \/ NavInitializeGoldenLayout
  \/ HomeTimerFire
  \/ LoggedIn
  \/ \E text \in DrawerTexts : OnDrawerSelect(text)
  \/ \E text \in DrawerTexts : SelectDrawerItem(text)
  \/ AppRoute
  \/ \E data \in EventData : ComponentEvent(data)
  \/ \E c \in calls : AddOrSelectPanel_AddPanel(c)
  \/ \E c \in calls, ok \in BOOLEAN : AddOrSelectPanel_Saved(c, ok)
  \/ PanelTimerFire
  \/ RestoreLayoutFire
  \/ \E key \in Keys(activeComponents) : ClosePanel(key)
  \/ \E index \in 1..Len(tabs) : HandleTabClosed(index)
  \/ \E tab \in deletes, ok \in BOOLEAN : RemoveWorkspaceItem_Delete(tab, ok)
  \/ \E arr \in LayoutArrs : LayoutStateChanged(arr)

Spec == Init /\ [][Next]_vars

----------------------------------------------------------------------------
(* Properties of Spec *)

\* a drawer selection: the data selectDrawerItem and onDrawerSelect build
IsDrawerSelection(d) ==
  \/ Truthy(Get(d.Configuration, "isDrawerItem"))
  \/ Truthy(Get(d.Configuration, "isResourceBrowser"))

\* a resource whose tab is to be persisted
Persistable(d) ==
  /\ d.ResourceTypeID \in DOMAIN ResourceTypeNames
  /\ ~Truthy(Get(d.Configuration, "isDrawerItem"))
  /\ ~Truthy(Get(d.Configuration, "isResourceBrowser"))

\* the registry entries of the panels showing drawer item `text`
DrawerPanels(text) ==
  {i \in 1..Len(activeComponents) :
     /\ IsDrawerSelection(activeComponents[i].state.resourceData)
     /\ activeComponents[i].state.resourceData.Name = text}

\* C1: with no AddOrSelectPanel calls overlapping, a drawer item has at most
\* one panel, and reselecting a drawer item whose panel is open focuses that
\* panel: focusPanel is called with an id that is a key of the registry.
\* This is stated for special items and resource-type browser items alike.
C1_DrawerReselectFocusesOnePanel ==
  /\ (lastFocus.called /\ ~lastFocus.overlapped /\ IsDrawerSelection(lastFocus.data))
        => lastFocus.hit
  /\ ~everOverlap => \A text \in DrawerTexts : Cardinality(DrawerPanels(text)) <= 1

\* C2: when AddOrSelectPanel is called for a non-drawer resource (a record,
\* dashboard, view, ...) that matches a panel opened earlier by
\* AddOrSelectPanel, the id it passes to focusPanel
\* is the key under which that panel is stored, so the panel is focused
\* (stated for requests made while no other call is in flight).
C2_ReRequestFocusesExistingPanel ==
  (/\ lastFocus.called
   /\ Persistable(lastFocus.data)
   /\ lastFocus.owner > 0
   /\ ~lastFocus.overlapped)
     => lastFocus.hit

\* C3: whenever a panel bound to a persisted workspace item is closed in the
\* layout, handlePanelClosed removes its tab: after the close no tab remains
\* for that workspace item.
C3_DeleteOnClose ==
  [][\A i \in 1..Len(activeComponents) :
       LET e == activeComponents[i]
       IN (/\ e.key \notin Keys(activeComponents')
           /\ e.state.workspaceItemId \in DOMAIN store)
          => \A j \in 1..Len(tabs') : tabs'[j].id # e.state.workspaceItemId]_vars

\* C4: when the layout engine reports a state change while a workspace is
\* loaded, handleLayoutChanged persists the new layout: afterwards the store
\* holds a '___GOLDEN_LAYOUT_CONFIG___' workspace item with that layout, the
\* item LoadWorkspaceItems restores from.
C4_LayoutChangePersisted ==
  [][(/\ layoutArr' # layoutArr
      /\ restoreTimer' = restoreTimer
      /\ workSpace # UNDEF
      /\ goldenLayoutContainer)
     => \E id \in DOMAIN store' :
          /\ store'[id].Name = LAYOUT_CONFIG_NAME
          /\ store'[id].WorkspaceID = workSpace
          /\ store'[id].Configuration = LayoutJson(getLayout(activeComponents', layoutArr'))]_vars

\* C5: also when AddOrSelectPanel calls for matching resource data were in
\* flight at the same time, once all calls have finished the layout holds at
\* most one panel, and tabs at most one tab, for a resource.
C5_UniqueUnderOverlap ==
  (everOverlap /\ calls = {}) =>
     /\ \A i, j \in 1..Len(activeComponents) :
          i < j => ~PanelMatches(activeComponents[j].state.resourceData,
                                 activeComponents[i].state.resourceData)
     /\ \A i, j \in 1..Len(tabs) :
          i < j => ~PanelMatches(tabs[j].data, tabs[i].data)

\* C6: no step writes a workspace item for a resource that is a drawer item,
\* a resource browser or has a ResourceTypeID that is no GUID;
\* SaveSingleWorkspaceItem returns true for such a tab and leaves the store
\* as it is; no drawer item is ever in tabs.
C6_NonPersistableNeverSaved ==
  [][/\ \A id \in DOMAIN store' :
          (id \notin DOMAIN store \/ store'[id] # store[id])
             => /\ store'[id].ResourceTypeID \in DOMAIN ResourceTypeNames
                /\ ~Truthy(Get(JsonParse(store'[id].Configuration), "isDrawerItem"))
                /\ ~Truthy(Get(JsonParse(store'[id].Configuration), "isResourceBrowser"))
     /\ (saveRet' # saveRet /\ ~Persistable(saveRet'.data))
          => (saveRet'.ret /\ store' = store)
     /\ \A i \in 1..Len(tabs') :
          ~Truthy(Get(tabs'[i].data.Configuration, "isDrawerItem"))]_vars

\* SaveSingleWorkspaceItem has returned true for a resource-browser tab,
\* which is in tabs, and a drawer item has a panel
C6_Witness ==
  /\ saveRet.called
  /\ Truthy(Get(saveRet.data.Configuration, "isResourceBrowser"))
  /\ saveRet.ret
  /\ \E i \in 1..Len(tabs) : tabs[i].data = saveRet.data
  /\ \E i \in 1..Len(activeComponents) :
        IsDrawerItem(activeComponents[i].state.resourceData)

\* the tab, the store and the panel of the call that built the tab agree
TabAgrees(t) ==
  /\ t.id \in DOMAIN store
  /\ store[t.id].WorkspaceID = workSpace
  /\ \A i \in 1..Len(activeComponents) :
       activeComponents[i].owner = t.call
         => /\ activeComponents[i].state.id = t.id
            /\ activeComponents[i].state.workspaceItemId = t.id

StartedCalls == calls' \ calls

\* C12: a resource passed to AddOrSelectPanel while the layout container is
\* absent is appended to pendingPanels and starts nothing: no call, no
\* panel, no tab, no workspace item.  When initializeGoldenLayout runs, each
\* queued resource is passed to AddOrSelectPanel once (it starts one call,
\* or, when a panel of the layout matches it, focuses that panel: the focus
\* request seen last is that of the last such resource), the calls start in
\* queue order, nothing else is started, and pendingPanels is empty
\* afterwards.
C12_PendingPanelsNotLost ==
  [][ /\ (AppRoute /\ ~goldenLayoutContainer) =>
           /\ pendingPanels' = Append(pendingPanels, AppViewData(PanelId(idSeq)))
           /\ UNCHANGED <<calls, activeComponents, tabs, store, lastFocus>>
      /\ NavInitializeGoldenLayout =>
           /\ pendingPanels' = <<>>
           /\ \A i \in 1..Len(pendingPanels) :
                \/ Cardinality({c \in StartedCalls : c.data = pendingPanels[i]}) = 1
                \/ /\ findPanelByResource(activeComponents, pendingPanels[i]) > 0
                   /\ lastFocus'.called
                   /\ \E j \in i..Len(pendingPanels) : lastFocus'.data = pendingPanels[j]
                   /\ \A c \in StartedCalls : c.data # pendingPanels[i]
           /\ \A c \in StartedCalls :
                \E i \in 1..Len(pendingPanels) : c.data = pendingPanels[i]
           /\ \A i, j \in 1..Len(pendingPanels) :
                \A c, d \in StartedCalls :
                   (i < j /\ c.data = pendingPanels[i] /\ d.data = pendingPanels[j])
                      => c.cid < d.cid
           /\ UNCHANGED <<activeComponents, tabs, store>>
    ]_vars

\* two queued resources have been started, in queue order, and the queue is
\* empty
C12_Witness ==
  /\ navInitialized
  /\ pendingPanels = <<>>
  /\ \E c, d \in calls :
       /\ c.origin = "pending"
       /\ d.origin = "pending"
       /\ c.cid < d.cid
       /\ c.data = AppViewData(PanelId(1))
       /\ d.data = AppViewData(PanelId(2))

----------------------------------------------------------------------------
(* SpecMatch: both routines applied to the same request and candidates     *)

MaxCands == 2


\* Configurations of requests and candidates
MatchConfigs ==
  { CfgEmpty,
    [Entity |-> "a"],
    [Entity |-> "b"],
    [Entity |-> "a", _q |-> "b"],
    [Entity |-> "a", NEWRECORDVALUES |-> "b"],
    [Entity |-> "a", SearchInput |-> "b"],
    [Entity |-> "a", ExtraFilter |-> "b"] }

\* the requests
MatchData ==
  { NewResourceData(UNDEF, "n", rtid, rrid, cfg) :
      rtid \in {RT_RECORDS, RT_VIEWS, RT_SEARCH},
      rrid \in {"r1", NULL, UNDEF},
      cfg \in MatchConfigs }

\* the resources of the panels/tabs that are open
MatchCandData ==
  { d \in MatchData :
      /\ d.ResourceRecordID # UNDEF
      /\ "Entity" \in DOMAIN d.Configuration
      /\ DOMAIN d.Configuration \subseteq {"Entity", "SearchInput", "ExtraFilter"} }

\* the candidates as registry entries and as tabs, in the same order
AsPanels(cands) ==
  [i \in 1..Len(cands) |->
     [key |-> "k", owner |-> 0,
      state |-> [id |-> "", workspaceItemId |-> "", resourceData |-> cands[i]]]]
AsTabs(cands) ==
  [i \in 1..Len(cands) |->
     [id |-> "", data |-> cands[i], workspaceItem |-> NULL, call |-> 0]]

MatchInit ==
  /\ mPc = "choose"
  /\ mReq = NoData
  /\ mCands = <<>>
  /\ mPanelRes = 0
  /\ mTabRes = 0

CfgIdle ==
  /\ cPc = "idle"
  /\ cEnv = CfgEmpty
  /\ cExports = CfgEmpty
  /\ cPrevEnv = CfgEmpty
  /\ cPrevExports = CfgEmpty

\* a request arrives
MatchRequest ==
  /\ mPc = "choose"
  /\ \E d \in MatchData : mReq' = d
  /\ mCands' = <<>>
  /\ mPc' = "cands"
  /\ UNCHANGED <<mPanelRes, mTabRes, cVars, uiVars, xVars>>

\* one more panel/tab is open
MatchCandidate ==
  /\ mPc = "cands"
  /\ Len(mCands) < MaxCands
  /\ \E d \in MatchCandData : mCands' = Append(mCands, d)
  /\ UNCHANGED <<mPc, mReq, mPanelRes, mTabRes, cVars, uiVars, xVars>>

\* both routines run on the request
MatchRun ==
  /\ mPc = "cands"
  /\ mPanelRes' = findPanelByResource(AsPanels(mCands), mReq)
  /\ mTabRes' = findExistingTab(AsTabs(mCands), mReq)
  /\ mPc' = "done"
  /\ UNCHANGED <<mReq, mCands, cVars, uiVars, xVars>>

MatchNext == MatchRequest \/ MatchCandidate \/ MatchRun

InitMatch == UiIdle /\ MatchInit /\ CfgIdle

SpecMatch == InitMatch /\ [][MatchNext]_vars

\* C8: for a request that is neither a drawer item nor an application view,
\* findPanelByResource returns the panel of a candidate exactly when
\* findExistingTab returns the tab of that same candidate (same position in
\* the same order), and both return nothing otherwise.
C8_PanelAndTabMatchAgree ==
  mPc = "done" => mPanelRes = mTabRes

C8_Witness ==
  /\ mPc = "done"
  /\ Len(mCands) = 2
  /\ mPanelRes = 2
  /\ mTabRes = 2

\* the default rule as the text states it
DefaultRule(req, cand) ==
  /\ cand.ResourceTypeID = req.ResourceTypeID
  /\ cand.ResourceRecordID = req.ResourceRecordID
  /\ \A k \in DOMAIN req.Configuration :
       (k \notin {"_q", "___rawQueryParams"} /\ k \notin {"NewRecordValues", "NEWRECORDVALUES"})
         => Get(cand.Configuration, k) = req.Configuration[k]

IsDefaultRequest(req) ==
  ResourceType(req) \notin {"Search Results", "User Views"}

\* C9: for a request that is not a drawer item, application view, search
\* results or user views resource, the routines return the first candidate,
\* in insertion order, whose ResourceTypeID and ResourceRecordID equal the
\* request's and whose Configuration has an equal value for every request
\* key other than '_'-prefixed keys and NewRecordValues (any letter case);
\* they return nothing when there is no such candidate.
C9_DefaultMatchingRule ==
  (mPc = "done" /\ IsDefaultRequest(mReq)) =>
     LET ok == {i \in 1..Len(mCands) : DefaultRule(mReq, mCands[i])}
         first == IF ok = {} THEN 0 ELSE CHOOSE i \in ok : \A j \in ok : i <= j
     IN mPanelRes = first /\ mTabRes = first

C9_Witness ==
  /\ mPc = "done"
  /\ IsDefaultRequest(mReq)
  /\ Len(mCands) = 2
  /\ mPanelRes = 1
  /\ DefaultRule(mReq, mCands[2])
  /\ "NEWRECORDVALUES" \in DOMAIN mReq.Configuration
  /\ "NEWRECORDVALUES" \notin DOMAIN mCands[1].Configuration

IsUserViews(req) == TrimLower(ResourceType(req)) = "user views"

\* the first candidate that satisfies rule, 0 when none does
FirstCand(rule(_)) ==
  LET hits == {i \in 1..Len(mCands) : rule(mCands[i])}
  IN IF hits = {} THEN 0 ELSE CHOOSE i \in hits : \A j \in hits : i <= j

----------------------------------------------------------------------------
(* SpecCfg: the CodeGen configuration module, loaded by a process started  *)
(* in some environment                                                     *)

EnvVars == {"DB_HOST", "DB_PORT", "DB_USERNAME", "DB_PASSWORD", "DB_DATABASE",
            "MJ_CORE_SCHEMA"}

\* values an environment may give each variable; UNDEF is "not set"
EnvValues ==
  [v \in EnvVars |->
     CASE v = "DB_HOST" -> {"localhost", "db.example.org"}
       [] v = "DB_PORT" -> {"1433", "1500"}
       [] v = "DB_USERNAME" -> {"codegen_user", "other_user"}
       [] v = "DB_PASSWORD" -> {"pw1", "pw2"}
       [] v = "DB_DATABASE" -> {"MJ_Production", "MJ_Test"}
       [] v = "MJ_CORE_SCHEMA" -> {UNDEF, "custom"}]

Environments == {e \in [EnvVars -> UNION {EnvValues[v] : v \in EnvVars}] :
                   \A v \in EnvVars : e[v] \in EnvValues[v]}

\* the export that each database variable is documented to set
ExportOf ==
  [v \in {"DB_HOST", "DB_PORT", "DB_USERNAME", "DB_PASSWORD", "DB_DATABASE"} |->
     CASE v = "DB_HOST" -> "dbHost"
       [] v = "DB_PORT" -> "dbPort"
       [] v = "DB_USERNAME" -> "dbUsername"
       [] v = "DB_PASSWORD" -> "dbPassword"
       [] v = "DB_DATABASE" -> "dbDatabase"]

\* env.get(name).default(d).asString()
EnvGetDefault(env, name, d) == IF env[name] = UNDEF THEN d ELSE env[name]

\* the values the module exports when evaluated in environment env
ConfigExports(env) ==
  [dbHost |-> "mj-mj-demosql.database.windows.net",
   dbPort |-> "1433",
   dbUsername |-> "MJ_CodeGen_Dev",
   dbPassword |-> "1idFE#1sB9rnmScnLi11R0fL",
   dbDatabase |-> "MJ_SAMPLE_DATA_ONLY_STAGING",
   mjCoreSchema |-> EnvGetDefault(env, "MJ_CORE_SCHEMA", "__mj")]

MatchIdle ==
  /\ mPc = "idle"
  /\ mReq = NoData
  /\ mCands = <<>>
  /\ mPanelRes = 0
  /\ mTabRes = 0

\* a process starts in an environment; the previous run is remembered
CfgStart ==
  /\ cPc \in {"idle", "loaded"}
  /\ cPrevEnv = CfgEmpty
  /\ \E e \in Environments : cEnv' = e
  /\ cPrevEnv' = cEnv
  /\ cPrevExports' = cExports
  /\ cExports' = CfgEmpty
  /\ cPc' = "started"
  /\ UNCHANGED <<mVars, uiVars, xVars>>

\* the module is evaluated
CfgLoad ==
  /\ cPc = "started"
  /\ cExports' = ConfigExports(cEnv)
  /\ cPc' = "loaded"
  /\ UNCHANGED <<cEnv, cPrevEnv, cPrevExports, mVars, uiVars, xVars>>

CfgNext == CfgStart \/ CfgLoad

InitCfg == UiIdle /\ MatchIdle /\ CfgIdle

SpecCfg == InitCfg /\ [][CfgNext]_vars

\* C10: the exported database settings are determined by DB_HOST, DB_PORT,
\* DB_USERNAME, DB_PASSWORD and DB_DATABASE: two environments that differ in
\* one of these variables yield a different value of the matching export.
C10_DbSettingsFollowEnv ==
  (cPc = "loaded" /\ cPrevExports # CfgEmpty) =>
     \A v \in DOMAIN ExportOf :
        cEnv[v] # cPrevEnv[v] => cExports[ExportOf[v]] # cPrevExports[ExportOf[v]]

----------------------------------------------------------------------------
(* SpecEvents: handleEvent, with ComponentEvents arriving before, during   *)
(* and after the handling of LoggedIn                                      *)

\* at most MaxEvents ComponentEvents are received
MaxEvents == 2

\* AddOrSelectTab(data) up to its first await.  Without the layout container
\* the tab path runs: an existing tab is selected, otherwise
\* SaveSingleWorkspaceItem(newTab) starts with index = tabs.length (an event
\* resource is persistable and the workspace is loaded once _loggedIn is set)
AddOrSelectTab_Start(st, hasContainer, reg, tabList, data) ==
  IF hasContainer
  THEN AddOrSelectPanel_Start(st, TRUE, reg, data, "plain")
  ELSE IF findExistingTab(tabList, data) > 0
  THEN st
  ELSE [st EXCEPT !.calls = @ \cup {[NewCall(st.nCalls + 1, data, "tab") EXCEPT
                                        !.pc = "save", !.index = Len(tabList)]},
                  !.nCalls = @ + 1]

\* handleEvent(event, args) for a ComponentEvent that opens a resource.
\* es = [st, early, log]: the component state, _earlyEvents, and the record
\* of AddOrSelectTab calls
\* (variant: the event is queued and handled at once)
handleEvent_ComponentEvent_NoGate(es, isLoggedIn, hasContainer, reg, tabList, ev) ==
  [es EXCEPT !.early = IF isLoggedIn THEN @ ELSE Append(@, ev),
             !.st = AddOrSelectTab_Start(@, hasContainer, reg, tabList, ev.data),
             !.log = Append(@, ev)]
handleEvent_ComponentEvent(es, isLoggedIn, hasContainer, reg, tabList, ev) ==
  IF ~isLoggedIn
  THEN [es EXCEPT !.early = Append(@, ev)]
  ELSE [es EXCEPT !.st = AddOrSelectTab_Start(@, hasContainer, reg, tabList, ev.data),
                  !.log = Append(@, ev)]

\* for (i = 0; i < _earlyEvents.length; ++i) this.handleEvent(e.event, e.args)
\* with _loggedIn set; the calls are not awaited
RECURSIVE handleEvent_Replay(_, _, _, _, _)
handleEvent_Replay(es, i, hasContainer, reg, tabList) ==
  IF i > Len(es.early) THEN es
  ELSE handleEvent_Replay(
         handleEvent_ComponentEvent(es, TRUE, hasContainer, reg, tabList, es.early[i]),
         i + 1, hasContainer, reg, tabList)

CurEs == [st |-> CurSt, early |-> earlyEvents, log |-> dispatched]

ApplyEs(es) ==
  /\ ApplySt(es.st)
  /\ earlyEvents' = es.early
  /\ dispatched' = es.log

\* handleEvent(LoggedIn) is called: await loadApp()
HandleLoggedIn_Begin ==
  /\ handlePc = "idle"
  /\ handlePc' = "loading"
  /\ UNCHANGED <<uiVars, mVars, cVars, earlyEvents, received, dispatched, menuVars, saveVars, svcVars, tcVars, pwVars>>

\* loadApp and loadWorkspace complete
HandleLoggedIn_Load ==
  /\ handlePc = "loading"
  /\ handlePc' = "loaded"
  /\ LoadWorkspace
  /\ UNCHANGED <<loggedIn, earlyEvents, received, dispatched, menuVars, saveVars, svcVars, tcVars, pwVars>>

\* _loggedIn = true; the early events are replayed; _earlyEvents.length = 0
HandleLoggedIn_Replay ==
  /\ handlePc = "loaded"
  /\ handlePc' = "done"
  /\ loggedIn' = TRUE
  /\ ApplyEs([handleEvent_Replay(CurEs, 1, goldenLayoutContainer, activeComponents, tabs)
                EXCEPT !.early = <<>>])
  /\ UNCHANGED <<glVars, tabs, workSpace, workSpaceItems, navInitialized, panelTimers,
                 restoreTimer, homeTimer, deletes, store, idSeq, wsSeq, nUser, saveRet,
                 received, mVars, cVars, menuVars, saveVars, svcVars, tcVars, pwVars>>

\* a ComponentEvent carrying resource data reaches handleEvent; `at` notes
\* where handleEvent(LoggedIn) stood when it arrived
HandleComponentEvent(data) ==
  /\ received < MaxEvents
  /\ received' = received + 1
  /\ ApplyEs(handleEvent_ComponentEvent(CurEs, loggedIn, goldenLayoutContainer,
                                        activeComponents, tabs,
                                        [n |-> received + 1, data |-> data, at |-> handlePc]))
  /\ UNCHANGED <<glVars, tabs, workSpace, workSpaceItems, loggedIn, navInitialized,
                 panelTimers, restoreTimer, homeTimer, deletes, store, idSeq, wsSeq,
                 nUser, saveRet, handlePc, mVars, cVars, menuVars, saveVars, svcVars, tcVars, pwVars>>

EventsNext ==
  \/ ViewInit
  \/ LayoutInitialize
  \/ NavInitializeGoldenLayout
  \/ HomeTimerFire
  \/ HandleLoggedIn_Begin
  \/ HandleLoggedIn_Load
  \/ HandleLoggedIn_Replay
  \/ \E data \in EventData : HandleComponentEvent(data)
  \/ \E c \in calls : AddOrSelectPanel_AddPanel(c)
  \/ \E c \in calls, ok \in BOOLEAN : AddOrSelectPanel_Saved(c, ok)

\* the user has no workspace items yet
InitEvents == UiIdle /\ MatchIdle /\ CfgIdle

SpecEvents == InitEvents /\ [][EventsNext]_vars

Stamps(q) == [i \in 1..Len(q) |-> q[i].n]

\* C11: while _loggedIn is false every ComponentEvent received so far is in
\* _earlyEvents, in arrival order, and none has been passed to
\* AddOrSelectTab (no call for an event resource exists); once _loggedIn is
\* true _earlyEvents is empty and the events passed to AddOrSelectTab are
\* exactly the events received, each once, in arrival order.
C11_EarlyEventsReplayedOnceInOrder ==
  LET arrivals == [i \in 1..received |-> i]
  IN /\ ~loggedIn => /\ Stamps(earlyEvents) = arrivals
                     /\ dispatched = <<>>
                     /\ \A c \in calls : c.data \notin EventData
     /\ loggedIn => /\ earlyEvents = <<>>
                    /\ Stamps(dispatched) = arrivals

\* two events, received before LoggedIn and while loadApp/loadWorkspace were
\* awaited, have been replayed
C11_Witness ==
  /\ loggedIn
  /\ earlyEvents = <<>>
  /\ Len(dispatched) = 2
  /\ dispatched[1].at = "idle"
  /\ dispatched[2].at = "loading"
  /\ \E c \in calls : c.data \in EventData

----------------------------------------------------------------------------
(* SpecStartup: the component starts; the user may navigate once to an     *)
(* application and closes nothing; timers fire and awaited promises        *)
(* resolve                                                                 *)

\* what runs without the user: lifecycle hooks, the login event, timers,
\* continuations of awaits
StartupSystem ==
  \/ ViewInit
  \/ LayoutInitialize
  \/ NavInitializeGoldenLayout
  \/ HomeTimerFire
  \/ LoggedIn
  \/ \E c \in calls : AddOrSelectPanel_AddPanel(c)
  \/ PanelTimerFire
  \/ RestoreLayoutFire

\* the user navigates to an application at most once while it starts
StartupNext == StartupSystem \/ (nUser = 0 /\ AppRoute)

\* the event loop runs a pending callback: a hook, a timer that is set or a
\* call waiting at an await is not postponed forever
SpecStartup == Init /\ [][StartupNext]_vars /\ WF_vars(StartupSystem)

IsHomePanel(e) ==
  /\ IsDrawerItem(e.state.resourceData)
  /\ Get(e.state.resourceData.Configuration, "drawerItemType") = "Home"

HomePanelActive == \E i \in 1..Len(activeComponents) : IsHomePanel(activeComponents[i])

EmptyWorkspaceLoaded == navInitialized /\ loggedIn /\ workSpaceItems = <<>>

----------------------------------------------------------------------------
(* SpecMenu: the context menu of the tab strip, one call of                *)
(* handleContextMenuOption at a time, on the tabs loaded at login          *)

\* the workspace holds at most MaxTabs items when the user logs in
MaxTabs == 3

StoredItem(n) ==
  [ID |-> WsId(n), Name |-> "Deal " \o ToString(n + 1), WorkspaceID |-> WORKSPACE_ID,
   ResourceTypeID |-> RT_RECORDS, ResourceRecordID |-> "r" \o ToString(n + 1),
   Sequence |-> n - 1, Configuration |-> JsonStringify([Entity |-> "Deals"])]

MenuStores == { [id \in {WsId(i) : i \in 1..n} |->
                   StoredItem(CHOOSE i \in 1..n : WsId(i) = id)] : n \in 0..MaxTabs }

\* Array.prototype.slice(from, to) with 0 <= from: elements from+1 .. to
Slice(seq, from, to) ==
  LET hi == IF to > Len(seq) THEN Len(seq) ELSE to
  IN IF hi <= from THEN <<>> ELSE [i \in 1..(hi - from) |-> seq[from + i]]

\* tabs.filter((tab, index) => index !== skip), skip counted from 0
FilterOut(seq, skip) ==
  LET keep == {i \in 1..Len(seq) : i - 1 # skip}
      n == Cardinality(keep)
  IN [i \in 1..n |-> seq[CHOOSE j \in keep : Cardinality({l \in keep : l <= j}) = i]]

\* the switch of handleContextMenuOption: [tabs, closedTabs] afterwards
\* (variant: option 3 drops the tab next to the clicked one without closing it)
contextMenuSwitch_SkipNext(tabList, option, k) ==
  IF option = 1 THEN [tabs |-> <<>>, closedTabs |-> tabList]
  ELSE IF option = 2
  THEN IF k > 0
       THEN [tabs |-> <<tabList[k]>>, closedTabs |-> FilterOut(tabList, k - 1)]
       ELSE [tabs |-> tabList, closedTabs |-> <<>>]
  ELSE IF option = 3
  THEN [tabs |-> Slice(tabList, 0, k), closedTabs |-> Slice(tabList, k + 1, Len(tabList))]
  ELSE [tabs |-> tabList, closedTabs |-> <<>>]
contextMenuSwitch(tabList, option, k) ==
  IF option = 1 THEN [tabs |-> <<>>, closedTabs |-> tabList]
  ELSE IF option = 2
  THEN IF k > 0
       THEN [tabs |-> <<tabList[k]>>, closedTabs |-> FilterOut(tabList, k - 1)]
       ELSE [tabs |-> tabList, closedTabs |-> <<>>]
  ELSE IF option = 3
  THEN [tabs |-> Slice(tabList, 0, k), closedTabs |-> Slice(tabList, k, Len(tabList))]
  ELSE [tabs |-> tabList, closedTabs |-> <<>>]

\* tabs.indexOf(tab), from 1; 0 when absent
IndexOf(seq, x) ==
  LET hits == {i \in 1..Len(seq) : seq[i] = x}
  IN IF hits = {} THEN 0 ELSE CHOOSE i \in hits : \A j \in hits : i <= j

\* the entity removeWorkspaceItem deletes for a tab: its workspaceItem, or
\* the item loaded by tab.id; UNDEF when the tab has neither
TabEntity(tab) ==
  IF Truthy(tab.workspaceItem) THEN tab.workspaceItem
  ELSE IF Truthy(tab.id) THEN tab.id
  ELSE UNDEF

\* handleTabContextMenu(event): a tab of the strip is right-clicked; index 0
\* is the Home tab
HandleTabContextMenu(k) ==
  /\ loggedIn
  /\ menuPc \in {"idle", "menu"}
  /\ k \in 0..Len(tabs)
  /\ contextMenuSelectedTabIndex' = k
  /\ menuPc' = "menu"
  /\ UNCHANGED <<uiVars, mVars, cVars, evVars, saveVars, svcVars, tcVars, pwVars, closedTabs, menuI, transGroup>>

\* handleContextMenuOption(option) up to `await this.waitForDomUpdate()`
HandleContextMenuOption(option) ==
  /\ menuPc = "menu"
  /\ LET r == contextMenuSwitch(tabs, option, contextMenuSelectedTabIndex)
     IN /\ tabs' = r.tabs
        /\ closedTabs' = r.closedTabs
  /\ menuPc' = "remove"
  /\ menuI' = 1
  /\ transGroup' = <<>>
  /\ UNCHANGED <<glVars, workSpace, workSpaceItems, pendingPanels, loggedIn,
                 navInitialized, calls, panelTimers, restoreTimer, homeTimer, deletes,
                 envVars, obsVars, mVars, cVars, evVars, saveVars, svcVars, tcVars, pwVars, contextMenuSelectedTabIndex>>

\* one round of the loop: await this.removeWorkspaceItem(tab, transGroup)
ContextMenu_Remove ==
  /\ menuPc = "remove"
  /\ menuI <= Len(closedTabs)
  /\ LET tab == closedTabs[menuI]
         index == IndexOf(tabs, tab)
     IN /\ tabs' = IF index > 0 THEN Splice(tabs, index) ELSE tabs
        /\ transGroup' = IF TabEntity(tab) # UNDEF
                         THEN Append(transGroup, TabEntity(tab)) ELSE transGroup
  /\ menuI' = menuI + 1
  /\ UNCHANGED <<glVars, workSpace, workSpaceItems, pendingPanels, loggedIn,
                 navInitialized, calls, panelTimers, restoreTimer, homeTimer, deletes,
                 envVars, obsVars, mVars, cVars, evVars, saveVars, svcVars, tcVars, pwVars, closedTabs,
                 contextMenuSelectedTabIndex, menuPc>>

\* transGroup.Submit() and the rest of the handler (ok: the transaction
\* commits)
ContextMenu_Submit(ok) ==
  /\ menuPc = "remove"
  /\ menuI > Len(closedTabs)
  /\ store' = IF ok
              THEN [id \in DOMAIN store \ {transGroup[i] : i \in 1..Len(transGroup)} |-> store[id]]
              ELSE store
  /\ menuPc' = "idle"
  /\ UNCHANGED <<glVars, navVars, idSeq, wsSeq, nCalls, nUser, obsVars, mVars, cVars,
                 evVars, saveVars, svcVars, tcVars, pwVars, closedTabs, contextMenuSelectedTabIndex, menuI, transGroup>>

MenuNext ==
  \/ LoggedIn
  \/ \E k \in 0..MaxTabs : HandleTabContextMenu(k)
  \/ \E option \in 0..3 : HandleContextMenuOption(option)
  \/ ContextMenu_Remove
  \/ \E ok \in BOOLEAN : ContextMenu_Submit(ok)

InitMenu ==
  /\ \E st \in MenuStores : UiStart(st)
  /\ MatchIdle
  /\ CfgIdle

SpecMenu == InitMenu /\ [][MenuNext]_vars

\* C15: when handleContextMenuOption is not executing, closedTabs is empty.
C15_ClosedTabsEmptyAfterUse ==
  menuPc \in {"idle", "menu"} => closedTabs = <<>>

\* the elements of seq at the positions in S, in order
SubSeqAt(seq, S) ==
  LET n == Cardinality(S)
  IN [i \in 1..n |-> seq[CHOOSE j \in S : Cardinality({l \in S : l <= j}) = i]]

EntitiesOf(tabList) ==
  {TabEntity(tabList[i]) : i \in 1..Len(tabList)} \ {UNDEF}

\* C16: with k the right-clicked strip index, 1 <= k <= tabs.length, option 1
\* leaves tabs empty, option 2 leaves exactly the clicked tab, option 3 the
\* tabs up to and including the clicked one; the kept and the closed tabs
\* split the previous tabs, each in the previous order.  When the handler
\* submits its transaction group, the group holds the Delete of the
\* workspace item of every closed tab, once, and of no kept tab, and a
\* committed group removes exactly those items from the store.
C16_ContextMenuPartitionsTabs ==
  [][ /\ \A option \in 1..3 :
           (HandleContextMenuOption(option) /\ contextMenuSelectedTabIndex \in 1..Len(tabs)) =>
              LET k == contextMenuSelectedTabIndex
              IN /\ option = 1 => tabs' = <<>>
                 /\ option = 2 => tabs' = <<tabs[k]>>
                 /\ option = 3 => tabs' = SubSeqAt(tabs, 1..k)
                 /\ \E keep \in SUBSET (1..Len(tabs)) :
                       /\ tabs' = SubSeqAt(tabs, keep)
                       /\ closedTabs' = SubSeqAt(tabs, (1..Len(tabs)) \ keep)
      /\ \A ok \in BOOLEAN :
           ContextMenu_Submit(ok) =>
              /\ {transGroup[i] : i \in 1..Len(transGroup)} = EntitiesOf(closedTabs)
              /\ Len(transGroup) = Cardinality(EntitiesOf(closedTabs))
              /\ EntitiesOf(tabs) \cap EntitiesOf(closedTabs) = {}
              /\ ok => /\ DOMAIN store' = DOMAIN store \ EntitiesOf(closedTabs)
                       /\ \A id \in DOMAIN store' : store'[id] = store[id]
    ]_vars

\* Close Others on the second of three tabs has completed and its group was
\* committed
C16_Witness ==
  /\ menuPc = "idle"
  /\ contextMenuSelectedTabIndex = 2
  /\ Len(tabs) = 1
  /\ tabs[1].id = WsId(2)
  /\ Len(closedTabs) = 2
  /\ closedTabs[1].id = WsId(1)
  /\ closedTabs[2].id = WsId(3)
  /\ DOMAIN store = {WsId(2)}

----------------------------------------------------------------------------
(* SpecSave: SaveSingleWorkspaceItem and SaveWorkspace as public methods,  *)
(* with tabs opened through component events and closed in the tab strip;  *)
(* the layout container is not present, so AddOrSelectTab keeps the tabs.  *)
(* No tab is opened or closed while SaveWorkspace runs.                    *)

SaveStores == { [id \in {WsId(i) : i \in 1..n} |->
                   StoredItem(CHOOSE i \in 1..n : WsId(i) = id)] : n \in 0..2 }

\* tabs a caller may pass that are not in tabs: a record, and a new record
\* whose ResourceRecordID is still null
SaveInputs ==
  { [id |-> "", data |-> d, workspaceItem |-> NULL, call |-> 0] :
      d \in EventData \cup
            {NewResourceData(UNDEF, "New Deal", RT_RECORDS, NULL, [Entity |-> "Deals"])} }

\* SaveSingleWorkspaceItem(tab), ok being what wsItem.Save() returns:
\* [ret, tab, store, wsSeq] afterwards; ret is "true", "false", or "throws"
\* when an exception leaves the method
\* (variant: without the try/catch)
SaveSingleWorkspaceItem_NoCatch(tab, tabList, ws, st, seq, ok) ==
  LET d == tab.data
      same == [ret |-> "false", tab |-> tab, store |-> st, wsSeq |-> seq]
  IN IF ~IsSaveable(d) THEN [same EXCEPT !.ret = "true"]
     ELSE IF ws = UNDEF THEN [same EXCEPT !.ret = "throws"]
     ELSE LET pos == IndexOf(tabList, tab)
              index == IF pos > 0 THEN pos - 1 ELSE Len(tabList)
              fresh == ~Truthy(tab.workspaceItem)
              load == fresh /\ Truthy(d.ID) /\ IsValidGuid(d.ID)
              entity == IF ~fresh THEN tab.workspaceItem
                        ELSE IF load /\ d.ID \in DOMAIN st THEN d.ID ELSE UNSAVED
              tab1 == [tab EXCEPT !.workspaceItem = entity]
              wsid == IF entity = UNSAVED THEN WsId(seq + 1) ELSE entity
              base == IF entity \in DOMAIN st THEN st[entity]
                      ELSE SavedItem(wsid, d, index, ws)
              item == [base EXCEPT !.ResourceRecordID = d.ResourceRecordID,
                                   !.Sequence = index,
                                   !.Configuration = JsonStringify(d.Configuration)]
          IN IF d.ResourceRecordID \in {NULL, UNDEF}
             THEN [same EXCEPT !.tab = tab1, !.ret = "throws"]
             ELSE IF ~ok \/ (load /\ d.ID \notin DOMAIN st)
             THEN [same EXCEPT !.tab = tab1]
             ELSE [ret |-> "true",
                   tab |-> [tab1 EXCEPT !.id = wsid, !.workspaceItem = wsid],
                   store |-> Put(st, wsid, item),
                   wsSeq |-> IF entity = UNSAVED THEN seq + 1 ELSE seq]
SaveSingleWorkspaceItem(tab, tabList, ws, st, seq, ok) ==
  LET d == tab.data
      same == [ret |-> "false", tab |-> tab, store |-> st, wsSeq |-> seq]
  IN IF ~IsSaveable(d) THEN [same EXCEPT !.ret = "true"]
     ELSE IF ws = UNDEF THEN same   \* throw new Error('No workspace loaded'), caught
     ELSE LET pos == IndexOf(tabList, tab)
              index == IF pos > 0 THEN pos - 1 ELSE Len(tabList)
              fresh == ~Truthy(tab.workspaceItem)
              load == fresh /\ Truthy(d.ID) /\ IsValidGuid(d.ID)
              \* the entity: a stored item, or one that was never saved
              entity == IF ~fresh THEN tab.workspaceItem
                        ELSE IF load /\ d.ID \in DOMAIN st THEN d.ID ELSE UNSAVED
              tab1 == [tab EXCEPT !.workspaceItem = entity]
              wsid == IF entity = UNSAVED THEN WsId(seq + 1) ELSE entity
              base == IF entity \in DOMAIN st THEN st[entity]
                      ELSE SavedItem(wsid, d, index, ws)
              item == [base EXCEPT !.ResourceRecordID = d.ResourceRecordID,
                                   !.Sequence = index,
                                   !.Configuration = JsonStringify(d.Configuration)]
          IN IF d.ResourceRecordID \in {NULL, UNDEF}
             THEN [same EXCEPT !.tab = tab1]   \* toString() throws, caught
             ELSE IF ~ok \/ (load /\ d.ID \notin DOMAIN st)
             THEN [same EXCEPT !.tab = tab1]
             ELSE [ret |-> "true",
                   tab |-> [tab1 EXCEPT !.id = wsid, !.workspaceItem = wsid],
                   store |-> Put(st, wsid, item),
                   wsSeq |-> IF entity = UNSAVED THEN seq + 1 ELSE seq]

\* `await this.SaveSingleWorkspaceItem(tab) && bSuccess`
\* (variant: the result of the last call alone)
SaveWorkspace_Combine_Last(ret, bSuccess) == ret = "true"
SaveWorkspace_Combine(ret, bSuccess) == ret = "true" /\ bSuccess

\* the effect of one SaveSingleWorkspaceItem call on the component
ApplySave(tab, r, ok) ==
  LET pos == IndexOf(tabs, tab)
  IN /\ tabs' = IF pos > 0 THEN [tabs EXCEPT ![pos] = r.tab] ELSE tabs
     /\ store' = r.store
     /\ wsSeq' = r.wsSeq
     /\ ssObs' = [called |-> TRUE, before |-> tab, after |-> r.tab, ret |-> r.ret,
                  ok |-> ok, workSpace |-> workSpace, store |-> store]

\* another component calls SaveSingleWorkspaceItem(tab)
SaveSingleWorkspaceItem_Call(tab, ok) ==
  /\ swPc = "idle"
  /\ calls = {}
  /\ nUser < MaxUserActions
  /\ nUser' = nUser + 1
  /\ ApplySave(tab, SaveSingleWorkspaceItem(tab, tabs, workSpace, store, wsSeq, ok), ok)
  /\ UNCHANGED <<glVars, workSpace, workSpaceItems, pendingPanels, loggedIn,
                 navInitialized, calls, panelTimers, restoreTimer, homeTimer, deletes,
                 idSeq, nCalls, obsVars, mVars, cVars, evVars, menuVars, svcVars, tcVars, pwVars,
                 swPc, swI, swSuccess, swLog, swRet>>

\* SaveWorkspace() is called
SaveWorkspace_Begin ==
  /\ swPc = "idle"
  /\ calls = {}
  /\ nUser < MaxUserActions
  /\ nUser' = nUser + 1
  /\ swPc' = "loop"
  /\ swI' = 1
  /\ swSuccess' = TRUE
  /\ swLog' = <<>>
  /\ swRet' = UNDEF
  /\ UNCHANGED <<glVars, navVars, store, idSeq, wsSeq, nCalls, obsVars, mVars, cVars,
                 evVars, menuVars, svcVars, tcVars, pwVars, ssObs>>

\* one round of the loop
SaveWorkspace_Step(ok) ==
  /\ swPc = "loop"
  /\ swI <= Len(tabs)
  /\ LET r == SaveSingleWorkspaceItem(tabs[swI], tabs, workSpace, store, wsSeq, ok)
     IN /\ ApplySave(tabs[swI], r, ok)
        /\ swLog' = Append(swLog, [pos |-> swI, ret |-> r.ret])
        /\ IF r.ret = "throws"
           THEN /\ swPc' = "idle"
                /\ swRet' = "throws"
                /\ UNCHANGED <<swI, swSuccess>>
           ELSE /\ swSuccess' = SaveWorkspace_Combine(r.ret, swSuccess)
                /\ swI' = swI + 1
                /\ UNCHANGED <<swPc, swRet>>
  /\ UNCHANGED <<glVars, workSpace, workSpaceItems, pendingPanels, loggedIn,
                 navInitialized, calls, panelTimers, restoreTimer, homeTimer, deletes,
                 idSeq, nCalls, nUser, obsVars, mVars, cVars, evVars, menuVars, svcVars, tcVars, pwVars>>

\* return bSuccess
SaveWorkspace_End ==
  /\ swPc = "loop"
  /\ swI > Len(tabs)
  /\ swPc' = "idle"
  /\ swRet' = IF swSuccess THEN "true" ELSE "false"
  /\ UNCHANGED <<uiVars, mVars, cVars, evVars, menuVars, svcVars, tcVars, pwVars, ssObs, swI, swSuccess, swLog>>

SaveNext ==
  \/ LoggedIn
  \/ \E data \in EventData : swPc = "idle" /\ loggedIn /\ HandleComponentEvent(data)
  \/ \E c \in calls, ok \in BOOLEAN : AddOrSelectPanel_Saved(c, ok)
  \/ \E index \in 1..Len(tabs) : swPc = "idle" /\ HandleTabClosed(index)
  \/ \E tab \in deletes, ok \in BOOLEAN : RemoveWorkspaceItem_Delete(tab, ok)
  \/ \E tab \in SaveInputs \cup {tabs[i] : i \in 1..Len(tabs)}, ok \in BOOLEAN :
        SaveSingleWorkspaceItem_Call(tab, ok)
  \/ SaveWorkspace_Begin
  \/ \E ok \in BOOLEAN : SaveWorkspace_Step(ok)
  \/ SaveWorkspace_End

InitSave ==
  /\ \E st \in SaveStores : UiStart(st)
  /\ MatchIdle
  /\ CfgIdle

SpecSave == InitSave /\ [][SaveNext]_vars

StoredTabs == {i \in 1..Len(tabs) : tabs[i].id \in DOMAIN store}

\* C17: when no save and no delete is under way, the workspace items of the
\* open tabs have Sequence values that are pairwise distinct and ascend in
\* the order of tabs, so that a load ordered by Sequence gives the tabs in
\* the same order.
C17_TabOrderSurvivesReload ==
  (calls = {} /\ deletes = {} /\ swPc = "idle") =>
     \A i, j \in StoredTabs :
        i < j => store[tabs[i].id].Sequence < store[tabs[j].id].Sequence

\* C19: when SaveWorkspace returns, SaveSingleWorkspaceItem has been called
\* once for every tab, in the order of tabs, whatever the earlier calls
\* returned, and the result is true exactly when every call returned true.
C19_SaveWorkspaceSavesAllTabs ==
  [][ SaveWorkspace_End =>
        /\ Len(swLog) = Len(tabs)
        /\ \A i \in 1..Len(swLog) : swLog[i].pos = i
        /\ swRet' = IF \A i \in 1..Len(swLog) : swLog[i].ret = "true"
                    THEN "true" ELSE "false"
    ]_vars

\* SaveWorkspace has returned false after the first of two tabs failed to
\* save and the second was saved
C19_Witness ==
  /\ swPc = "idle"
  /\ swRet = "false"
  /\ Len(swLog) = 2
  /\ swLog[1].ret = "false"
  /\ swLog[2].ret = "true"

\* C20: for a persistable tab SaveSingleWorkspaceItem returns true or false
\* and never throws; it returns false when no workspace is loaded, when
\* Save() returns false and when ResourceRecordID.toString() throws; when it
\* returns false tab.id is what it was; when it returns true Save() has
\* succeeded and tab.id is the ID of the workspace item, which is stored.
C20_SaveFailureIsAValue ==
  (ssObs.called /\ Persistable(ssObs.before.data)) =>
     /\ ssObs.ret \in {"true", "false"}
     /\ ( \/ ssObs.workSpace = UNDEF
          \/ ~ssObs.ok
          \/ ssObs.before.data.ResourceRecordID \in {NULL, UNDEF} ) => ssObs.ret = "false"
     /\ ssObs.ret = "false" => ssObs.after.id = ssObs.before.id
     /\ ssObs.ret = "true" => /\ ssObs.ok
                              /\ ssObs.after.id = ssObs.after.workspaceItem
                              /\ IsValidGuid(ssObs.after.id)
     /\ ssObs.after.id # ssObs.before.id => ssObs.ret = "true"

\* a call without a workspace has returned false for a tab that is not saved
C20_Witness ==
  /\ ssObs.called
  /\ Persistable(ssObs.before.data)
  /\ ssObs.workSpace = UNDEF
  /\ ssObs.ok
  /\ ssObs.ret = "false"
  /\ ssObs.after.id = ""

----------------------------------------------------------------------------
(* SpecLoad: LoadWorkspaceItems over workspaces with and without a layout  *)
(* configuration item                                                      *)

\* a '___GOLDEN_LAYOUT_CONFIG___' item whose Configuration holds no layout
PlainLayoutItem ==
  [LegacyLayoutItem EXCEPT !.Configuration = JsonStringify([Entity |-> "Deals"])]

\* the workspace holds any of the regular items 1 and 3 (item 3 sorts after
\* the layout item or together with it) and at most one layout item
LoadRegularItems ==
  { StoredItem(1), StoredItem(3), [StoredItem(3) EXCEPT !.Sequence = 1] }
LoadStores ==
  { [id \in {it.ID : it \in S} |-> CHOOSE it \in S : it.ID = id] :
      S \in { R \cup L :
                R \in { Q \in SUBSET LoadRegularItems :
                          \A a, b \in Q : a.ID = b.ID => a = b },
                L \in { {}, {LegacyLayoutItem}, {PlainLayoutItem} } } }

LoadNext ==
  \/ ViewInit
  \/ LayoutInitialize
  \/ NavInitializeGoldenLayout
  \/ HomeTimerFire
  \/ AppRoute
  \/ \E c \in calls : AddOrSelectPanel_AddPanel(c)
  \/ LoggedIn
  \/ PanelTimerFire
  \/ RestoreLayoutFire

InitLoad ==
  /\ \E st \in LoadStores : UiStart(st)
  /\ MatchIdle
  /\ CfgIdle

SpecLoad == InitLoad /\ [][LoadNext]_vars

IsLayoutItem(item) == item.Name = LAYOUT_CONFIG_NAME
WorkspaceStored(st) == {st[id] : id \in {d \in DOMAIN st : st[d].WorkspaceID = WORKSPACE_ID}}

\* C18: when LoadWorkspaceItems completes with nothing interleaved, the
\* loaded items are the workspace's items in ascending Sequence, tabs holds
\* exactly one tab per loaded item other than the layout-configuration
\* item, in loaded order, each with the item's ID as id and the item as
\* workspaceItem; whatever tabs held before is gone, and no tab and no
\* panel is made for the layout-configuration item, whether a saved layout
\* is restored or not
C18_TabsMirrorLoadedItems ==
  [][ (~loggedIn /\ loggedIn') =>
        LET items == workSpaceItems'
            shown == SelectSeq(items, LAMBDA it : ~IsLayoutItem(it))
            cfgIds == {items[i].ID : i \in {j \in 1..Len(items) : IsLayoutItem(items[j])}}
        IN /\ {items[i] : i \in 1..Len(items)} = WorkspaceStored(store)
           /\ Len(items) = Cardinality(WorkspaceStored(store))
           /\ \A i, j \in 1..Len(items) : i < j => items[i].Sequence <= items[j].Sequence
           /\ Len(tabs') = Len(shown)
           /\ \A i \in 1..Len(shown) :
                /\ tabs'[i].id = shown[i].ID
                /\ tabs'[i].workspaceItem = shown[i].ID
                /\ tabs'[i].data.ID = shown[i].ID
           /\ \A i \in 1..Len(panelTimers') : panelTimers'[i].id \notin cfgIds
           /\ (restoreTimer' # restoreTimer => panelTimers' = panelTimers)
    ]_vars

\* a workspace of three items with the layout item in the middle has been
\* loaded and its saved layout is about to be restored; the tab of the
\* application view opened before the login is no longer in tabs, its panel
\* is still in the layout
C18_Witness ==
  /\ loggedIn
  /\ restoreTimer # NoLayout
  /\ calls = {}
  /\ nUser = 1
  /\ Len(workSpaceItems) = 3
  /\ IsLayoutItem(workSpaceItems[2])
  /\ Len(tabs) = 2
  /\ tabs[1].id = WsId(1)
  /\ tabs[2].id = WsId(3)
  /\ \E i \in 1..Len(activeComponents) :
       Get(activeComponents[i].state.resourceData.Configuration, "isApplicationView") = "true"

----------------------------------------------------------------------------
(* SpecLayout: the methods of GoldenLayoutService and of                   *)
(* GoldenLayoutContainerComponent called with and without a layout instance *)

\* at most MaxPanels panel ids are generated
MaxPanels == 2

\* panel states handed to addPanel: two with an id, one without
ServiceStates ==
  { [id |-> "p1", workspaceItemId |-> UNDEF, resourceData |-> DrawerData("p1", "Home", "Home")],
    [id |-> "p2", workspaceItemId |-> UNDEF, resourceData |-> AppViewData("p2")],
    [id |-> UNDEF, workspaceItemId |-> UNDEF, resourceData |-> AppViewData(UNDEF)] }

\* panel ids handed to closePanel and focusPanel
ServicePanelIds == {"p1", "p2", "p9", PanelId(1)}

\* layouts handed to loadLayout
ServiceLayouts == { [arr |-> "A1", content |-> <<ItemPanelState(LegacyItem)>>] }

\* GoldenLayoutService.destroy(), from ngOnDestroy of the container component
GoldenLayoutService_Destroy ==
  /\ svcObs' = [op |-> "destroy", threw |-> FALSE, focused |-> FALSE, ret |-> RetUndefined]
  /\ IF goldenLayout
     THEN /\ activeComponents' = <<>>
          /\ goldenLayout' = FALSE
          /\ layoutInitialized' = FALSE
     ELSE UNCHANGED <<activeComponents, goldenLayout, layoutInitialized>>
  /\ UNCHANGED <<goldenLayoutContainer, layoutArr, navVars, envVars, obsVars, mVars,
                 cVars, evVars, menuVars, saveVars, tcVars, pwVars>>

\* GoldenLayoutService.addPanel(state) called directly
GoldenLayoutService_AddPanel(state) ==
  /\ idSeq <= MaxPanels
  /\ LET r == GoldenLayoutService_addPanel(activeComponents, goldenLayout, state, 0, idSeq)
     IN /\ activeComponents' = r.reg
        /\ svcObs' = [op |-> "service.addPanel", threw |-> r.threw, focused |-> FALSE, ret |-> RetUndefined]
        /\ idSeq' = IF r.threw THEN idSeq ELSE idSeq + addPanelIds(goldenLayout, state)
  /\ UNCHANGED <<goldenLayoutContainer, goldenLayout, layoutArr, navVars, store, wsSeq,
                 nCalls, nUser, obsVars, mVars, cVars, evVars, menuVars, saveVars, tcVars, pwVars,
                 layoutInitialized>>

\* GoldenLayoutContainerComponent.addPanel(state)
GoldenLayoutContainer_AddPanel(state) ==
  /\ idSeq <= MaxPanels
  /\ LET r == GoldenLayoutContainer_addPanel(activeComponents, goldenLayout, state, 0, idSeq)
     IN /\ activeComponents' = r.reg
        /\ svcObs' = [op |-> "container.addPanel", threw |-> r.threw, focused |-> FALSE, ret |-> RetUndefined]
        /\ idSeq' = idSeq + addPanelIds(goldenLayout, state)
  /\ UNCHANGED <<goldenLayoutContainer, goldenLayout, layoutArr, navVars, store, wsSeq,
                 nCalls, nUser, obsVars, mVars, cVars, evVars, menuVars, saveVars, tcVars, pwVars,
                 layoutInitialized>>

\* GoldenLayoutService.closePanel(panelId): container.close() of a known
\* panel destroys its component (destroyComponent, panelDestroyed,
\* handlePanelClosed)
GoldenLayoutService_ClosePanel(panelId) ==
  /\ svcObs' = [op |-> "closePanel", threw |-> FALSE, focused |-> FALSE, ret |-> RetUndefined]
  /\ IF panelId \in Keys(activeComponents)
     THEN /\ activeComponents' = MapDelete(activeComponents, panelId)
          /\ LET i == handlePanelClosedTab(tabs, PanelClosedEvent(panelId))
             IN /\ tabs' = closeTab_Tabs(tabs, i)
                /\ deletes' = closeTab_Deletes(deletes, tabs, i)
     ELSE UNCHANGED <<activeComponents, tabs, deletes>>
  /\ UNCHANGED <<goldenLayoutContainer, goldenLayout, layoutArr, workSpace,
                 workSpaceItems, pendingPanels, loggedIn, navInitialized, calls,
                 panelTimers, restoreTimer, homeTimer, envVars, obsVars, mVars, cVars,
                 evVars, menuVars, saveVars, tcVars, pwVars, layoutInitialized>>

\* GoldenLayoutService.focusPanel(panelId); focused: container.focus() ran
GoldenLayoutService_FocusPanel(panelId) ==
  /\ svcObs' = [op |-> "focusPanel", threw |-> FALSE,
                focused |-> focusPanel(activeComponents, panelId), ret |-> RetUndefined]
  /\ UNCHANGED <<uiVars, mVars, cVars, evVars, menuVars, saveVars, tcVars, pwVars, layoutInitialized>>

\* GoldenLayoutService.loadLayout(config)
GoldenLayoutService_LoadLayout(config) ==
  /\ svcObs' = [op |-> "loadLayout", threw |-> FALSE, focused |-> FALSE, ret |-> RetUndefined]
  /\ IF goldenLayout
     THEN /\ activeComponents' = CreateAll(<<>>, config.content, idSeq)
          /\ idSeq' = idSeq + CountGenerated(config.content)
          /\ layoutArr' = config.arr
     ELSE UNCHANGED <<activeComponents, idSeq, layoutArr>>
  /\ UNCHANGED <<goldenLayoutContainer, goldenLayout, navVars, store, wsSeq, nCalls,
                 nUser, obsVars, mVars, cVars, evVars, menuVars, saveVars, tcVars, pwVars,
                 layoutInitialized>>

\* GoldenLayoutService.getLayout()
GoldenLayoutService_GetLayout ==
  /\ svcObs' = [op |-> "getLayout", threw |-> FALSE, focused |-> FALSE,
                ret |-> GoldenLayoutService_getLayout(activeComponents, goldenLayout, layoutArr)]
  /\ UNCHANGED <<uiVars, mVars, cVars, evVars, menuVars, saveVars, tcVars, pwVars, layoutInitialized>>

LayoutNext ==
  \/ ViewInit
  \/ LayoutInitialize
  \/ GoldenLayoutService_Destroy
  \/ \E state \in ServiceStates : GoldenLayoutService_AddPanel(state)
  \/ \E state \in ServiceStates : GoldenLayoutContainer_AddPanel(state)
  \/ \E panelId \in ServicePanelIds : GoldenLayoutService_ClosePanel(panelId)
  \/ \E panelId \in ServicePanelIds : GoldenLayoutService_FocusPanel(panelId)
  \/ \E config \in ServiceLayouts : GoldenLayoutService_LoadLayout(config)
  \/ GoldenLayoutService_GetLayout

InitLayout ==
  /\ UiIdle
  /\ MatchIdle
  /\ CfgIdle

SpecLayout == InitLayout /\ [][LayoutNext]_vars

\* everything the service and the navigation component hold
ServiceHeld == <<glVars, layoutInitialized, navVars, envVars>>

\* C21: without a layout instance GoldenLayoutService.addPanel throws and
\* leaves activeComponents and layoutInitialized as they were;
\* GoldenLayoutContainerComponent.addPanel shows its caller no error and
\* adds no panel; closePanel and focusPanel with an id that is not in
\* activeComponents, and loadLayout without a layout instance, change
\* nothing; getLayout without a layout instance returns null
C21_NoLayoutInstanceIsHarmless ==
  [][ /\ \A state \in ServiceStates :
           (GoldenLayoutService_AddPanel(state) /\ ~goldenLayout) =>
              /\ svcObs'.threw
              /\ UNCHANGED <<activeComponents, layoutInitialized>>
      /\ \A state \in ServiceStates :
           GoldenLayoutContainer_AddPanel(state) =>
              /\ ~svcObs'.threw
              /\ (~goldenLayout => UNCHANGED ServiceHeld)
      /\ \A panelId \in ServicePanelIds :
           (GoldenLayoutService_ClosePanel(panelId) /\ panelId \notin Keys(activeComponents)) =>
              /\ ~svcObs'.threw
              /\ UNCHANGED ServiceHeld
      /\ \A panelId \in ServicePanelIds :
           (GoldenLayoutService_FocusPanel(panelId) /\ panelId \notin Keys(activeComponents)) =>
              /\ ~svcObs'.threw
              /\ ~svcObs'.focused
              /\ UNCHANGED ServiceHeld
      /\ \A config \in ServiceLayouts :
           (GoldenLayoutService_LoadLayout(config) /\ ~goldenLayout) =>
              /\ ~svcObs'.threw
              /\ UNCHANGED ServiceHeld
      /\ (GoldenLayoutService_GetLayout /\ ~goldenLayout) =>
              /\ ~svcObs'.threw
              /\ svcObs'.ret = RetNull
    ]_vars

\* the layout was initialized, a panel with a generated id was added, the
\* layout was destroyed, and addPanel of the service has then thrown
C21_Witness ==
  /\ ~goldenLayout
  /\ ~layoutInitialized
  /\ idSeq > 1
  /\ activeComponents = <<>>
  /\ svcObs.op = "service.addPanel"
  /\ svcObs.threw

----------------------------------------------------------------------------
(* SpecTabClosed: handleTabClosed with any TabClosedEvent                  *)

\* a number-typed field of an event: a number or null
Num(k) == [null |-> FALSE, n |-> k]
NullNum == [null |-> TRUE, n |-> 0]
EventNums == {NullNum} \cup {Num(k) : k \in -1..(MaxTabs + 1)}
TabClosedEvents == [index : EventNums, newTabIndex : EventNums]

\* handleTabClosed: the position in tabs (from 1) of the tab handed to
\* closeTab, 0 when closeTab is not called or is handed tabs[-1]
handleTabClosed_Index(tabList, index) ==
  IF ~index.null /\ index.n >= 0 /\ index.n <= Len(tabList) THEN index.n ELSE 0

\* closeTab(tab, newTabIndex) with tab at position i: after the tab is
\* spliced out and tabs are left, a newTabIndex other than 0 selects
\* this.tabs[newTabIndex - 1]; for undefined, updateBrowserURL(tab, tab?.data)
\* reads data.ResourceTypeID and throws a TypeError
closeTab_Throws(tabList, i, newTabIndex) ==
  LET left == closeTab_Tabs(tabList, i)
  IN /\ i > 0
     /\ Len(left) > 0
     /\ (newTabIndex.null \/ newTabIndex.n # 0)
     /\ (newTabIndex.null \/ newTabIndex.n \notin 1..Len(left))

\* handleTabClosed(event): done() is reached unless closeTab rejected
HandleTabClosedEvent(event) ==
  /\ loggedIn
  /\ LET i == handleTabClosed_Index(tabs, event.index)
         threw == closeTab_Throws(tabs, i, event.newTabIndex)
     IN /\ tabs' = closeTab_Tabs(tabs, i)
        /\ deletes' = closeTab_Deletes(deletes, tabs, i)
        /\ tcObs' = [called |-> TRUE, index |-> event.index,
                     newTabIndex |-> event.newTabIndex, before |-> tabs,
                     done |-> IF threw THEN 0 ELSE 1, threw |-> threw]
  /\ UNCHANGED <<glVars, workSpace, workSpaceItems, pendingPanels, loggedIn,
                 navInitialized, calls, panelTimers, restoreTimer, homeTimer,
                 envVars, obsVars, mVars, cVars, evVars, menuVars, saveVars, svcVars,
                 pwVars>>

TabClosedNext ==
  \/ LoggedIn
  \/ \E event \in TabClosedEvents : HandleTabClosedEvent(event)
  \/ \E tab \in deletes, ok \in BOOLEAN : RemoveWorkspaceItem_Delete(tab, ok)

InitTabClosed ==
  /\ \E st \in MenuStores : UiStart(st)
  /\ MatchIdle
  /\ CfgIdle

SpecTabClosed == InitTabClosed /\ [][TabClosedNext]_vars

\* C22: for every TabClosedEvent, whatever its index and newTabIndex and
\* whatever tabs holds, handleTabClosed calls event.done() exactly once, and
\* by then the tab the index addresses, if any, is out of tabs
C22_DoneCalledForEveryEvent ==
  [][ \A event \in TabClosedEvents :
        HandleTabClosedEvent(event) =>
          /\ tcObs'.done = 1
          /\ LET i == handleTabClosed_Index(tabs, event.index)
             IN i > 0 => tabs' = Splice(tabs, i)
    ]_vars

----------------------------------------------------------------------------
(* SpecWrapper: PanelWrapperComponent, from its creation by                *)
(* GoldenLayoutService.createComponent to the content it shows              *)

\* keys of componentMap / specialComponentMap and of browserComponentMap
SpecialComponents == {"Home", "Settings", "AskSkip", "Files", "Lists", "Data"}
BrowserComponents == {"Dashboards", "Reports", "Queries"}

\* the Data input createComponent sets: the resources the navigation
\* component builds, the other special drawer items and resource browsers,
\* and no resource (NoData: every read through ?. is undefined)
WrapperInputs ==
  {NoData, AppViewData(PanelId(1)), ItemData(LegacyItem)}
    \cup EventData
    \cup {onDrawerSelectData(PanelId(1), t) : t \in DrawerTexts}
    \cup {selectDrawerItemData(PanelId(1), t) : t \in DrawerTexts}
    \cup {[DrawerData(PanelId(1), "Home", ty) EXCEPT !.Name = ty] : ty \in SpecialComponents}
    \cup {[onDrawerSelectData(PanelId(1), "Dashboards") EXCEPT
             !.Name = n, !.ResourceTypeID = UNDEF, !.Configuration.resourceTypeName = n] :
          n \in BrowserComponents \cup {"Entities"}}

CreateTimer(component) == [kind |-> "create", component |-> component]
RetryTimer == [kind |-> "retry", component |-> NULL]
VisibleTimer == [kind |-> "visible", component |-> NULL]

\* the fields of the wrapper the loaders write
CurWrapper ==
  [isVisible |-> isVisible, shouldShowSpecialComponent |-> shouldShowSpecialComponent,
   timers |-> pwTimers, retries |-> pwRetries]
ApplyWrapper(w) ==
  /\ isVisible' = w.isVisible
  /\ shouldShowSpecialComponent' = w.shouldShowSpecialComponent
  /\ pwTimers' = w.timers
  /\ pwRetries' = w.retries

ShowSpecial(w, component) ==
  [w EXCEPT !.shouldShowSpecialComponent = TRUE, !.timers = @ \cup {CreateTimer(component)}]
ShowDefault(w) ==
  [w EXCEPT !.shouldShowSpecialComponent = FALSE, !.timers = @ \cup {VisibleTimer}]

loadBrowserComponent(w, d) ==
  LET resourceTypeName == IF Truthy(ResourceType(d)) THEN ResourceType(d)
                          ELSE Get(d.Configuration, "resourceTypeName")
  IN IF resourceTypeName \in BrowserComponents
     THEN ShowSpecial(w, resourceTypeName) ELSE ShowDefault(w)

checkForSpecialComponent(w, d) ==
  IF ResourceType(d) \in SpecialComponents
  THEN ShowSpecial(w, ResourceType(d)) ELSE ShowDefault(w)

\* a name that is not in componentMap: nothing is done
loadSpecialComponentByType(w, componentTypeName) ==
  IF componentTypeName \in SpecialComponents
  THEN ShowSpecial(w, componentTypeName) ELSE w

loadApplicationView(w) == ShowSpecial(w, "SingleApplication")

\* the if-chain of ngOnInit and of its retry; otherwise: its last else
Classify(w, d, otherwise) ==
  IF Truthy(Get(d.Configuration, "isResourceBrowser")) THEN loadBrowserComponent(w, d)
  ELSE IF /\ Truthy(Get(d.Configuration, "isDrawerItem"))
          /\ Truthy(Get(d.Configuration, "drawerItemType"))
       THEN loadSpecialComponentByType(w, Get(d.Configuration, "drawerItemType"))
  ELSE IF Truthy(ResourceType(d)) THEN checkForSpecialComponent(w, d)
  ELSE IF Truthy(Get(d.Configuration, "isApplicationView")) THEN loadApplicationView(w)
  ELSE otherwise

\* createComponent: the wrapper is created and its inputs are set
Wrapper_Create(d) ==
  /\ pwPc = "none"
  /\ pwPc' = "created"
  /\ Data' = d
  /\ UNCHANGED <<isVisible, shouldShowSpecialComponent, componentRef, pwTimers, pwRetries,
                 uiVars, mVars, cVars, evVars, menuVars, saveVars, svcVars, tcVars>>

Wrapper_ngOnInit ==
  /\ pwPc = "created"
  /\ pwPc' = "init"
  /\ ApplyWrapper(Classify(CurWrapper, Data,
                           [CurWrapper EXCEPT !.timers = @ \cup {RetryTimer}]))
  /\ UNCHANGED <<Data, componentRef,
                 uiVars, mVars, cVars, evVars, menuVars, saveVars, svcVars, tcVars>>

\* the 100 ms timer of ngOnInit
Wrapper_RetryFire ==
  /\ RetryTimer \in pwTimers
  /\ LET w == [CurWrapper EXCEPT !.timers = @ \ {RetryTimer}, !.retries = @ + 1]
     IN ApplyWrapper(Classify(w, Data, ShowDefault(w)))
  /\ UNCHANGED <<pwPc, Data, componentRef,
                 uiVars, mVars, cVars, evVars, menuVars, saveVars, svcVars, tcVars>>

\* a 0 ms timer of a loader: dynamicComponentContainer.createComponent
Wrapper_CreateFire(t) ==
  /\ t \in pwTimers
  /\ t.kind = "create"
  /\ pwTimers' = pwTimers \ {t}
  /\ componentRef' = t.component
  /\ UNCHANGED <<pwPc, Data, isVisible, shouldShowSpecialComponent, pwRetries,
                 uiVars, mVars, cVars, evVars, menuVars, saveVars, svcVars, tcVars>>

\* a 50 ms timer: isVisible = true
Wrapper_VisibleFire ==
  /\ VisibleTimer \in pwTimers
  /\ pwTimers' = pwTimers \ {VisibleTimer}
  /\ isVisible' = TRUE
  /\ UNCHANGED <<pwPc, Data, shouldShowSpecialComponent, componentRef, pwRetries,
                 uiVars, mVars, cVars, evVars, menuVars, saveVars, svcVars, tcVars>>

\* ngOnDestroy: the created component is destroyed; no timer is cleared
Wrapper_ngOnDestroy ==
  /\ pwPc \in {"created", "init"}
  /\ pwPc' = "destroyed"
  /\ componentRef' = NULL
  /\ UNCHANGED <<Data, isVisible, shouldShowSpecialComponent, pwTimers, pwRetries,
                 uiVars, mVars, cVars, evVars, menuVars, saveVars, svcVars, tcVars>>

\* what runs without anyone acting: change detection and the timers
WrapperSystem ==
  \/ Wrapper_ngOnInit
  \/ Wrapper_RetryFire
  \/ \E t \in pwTimers : Wrapper_CreateFire(t)
  \/ Wrapper_VisibleFire

WrapperNext ==
  \/ \E d \in WrapperInputs : Wrapper_Create(d)
  \/ WrapperSystem
  \/ Wrapper_ngOnDestroy

InitWrapper ==
  /\ UiIdle
  /\ MatchIdle
  /\ CfgIdle

SpecWrapper == InitWrapper /\ [][WrapperNext]_vars /\ WF_vars(WrapperSystem)

ShowsContent ==
  \/ shouldShowSpecialComponent /\ componentRef # NULL
  \/ isVisible

\* C23: a panel never stays blank: whatever ResourceData the wrapper is
\* given, it eventually shows content (a component created in the dynamic
\* container with shouldShowSpecialComponent true, or isVisible true) unless
\* it is destroyed first, and classification is retried at most once
C23_PanelNeverStaysBlank ==
  /\ (pwPc = "created") ~> (ShowsContent \/ pwPc = "destroyed")
  /\ [](pwRetries <= 1)

====
